---- MODULE Spec2Model ----
(***************************************************************************)
(* Backtest engine of ejbrever/trader ("trader one").                      *)
(*                                                                         *)
(* Modelled revision: src/one/backtest.go lines 428-892 (the revision that *)
(* keeps the ledger in the client) with the strategy code of               *)
(* src/unnamed/part_004 and the predicates of src/one/purchase/purchase.go.*)
(*                                                                         *)
(* Time is an integer number of seconds since a Monday 00:00:00 in the     *)
(* EST location; daylight-saving shifts are not modelled.                  *)
(* decimal.Decimal values are integers: prices in whole price units, cash  *)
(* in price units, bracket prices (which carry four more decimal places)   *)
(* in 1/10000 of a price unit.  The price samples of the model are values  *)
(* for which the float32 / float64 products of buyEvent and placeSellOrder *)
(* are exact, so integer arithmetic computes what the code computes.       *)
(***************************************************************************)
EXTENDS Integers, Sequences, FiniteSets

VARIABLES
    flags,                    \* the command-line flags, parsed in init()
    backtestClock,            \* c.backtestClock: the fakeClock record
    backtestHistory,          \* c.backtestHistory: epochToTickerData, endTime
    purchases,                \* c.purchases
    concurrentPurchases,      \* c.concurrentPurchases
    backtestOrderID,          \* c.backtestOrderID
    backtestStockHeldQty,     \* c.backtestStockHeldQty
    backtestCash,             \* c.backtestCash
    backtestCashStart,        \* c.backtestCashStart
    backtestCashStartOfDay,   \* c.backtestCashStartOfDay
    backtestSymbolStartOfDay, \* c.backtestSymbolStartOfDay
    backtestSymbolEndOfDay,   \* c.backtestSymbolEndOfDay
    trading,                  \* package variable trading
    pc,                       \* position of the driver loop of backtest()
    todo,                     \* rest of the slice updateOrders is ranging over
    lastCall,                 \* the call completed last and what it observed
    attempts,                 \* the fill attempts the gate rejected, by tick
    loader,                   \* historicalData(): its input and local variables
    live,                     \* main()'s live loop: its run goroutines and the broker
    db                        \* the database client's table and the purchase it is handed

vars == <<flags, backtestClock, backtestHistory, purchases, concurrentPurchases,
          backtestOrderID, backtestStockHeldQty, backtestCash, backtestCashStart,
          backtestCashStartOfDay, backtestSymbolStartOfDay, backtestSymbolEndOfDay,
          trading, pc, todo, lastCall, attempts, loader, live, db>>

---------------------------------------------------------------------------
(* Bounds of the model and the configuration (flags) it runs under.        *)

\* Longest price series, in one-minute records.
MaxMinutes == 5

\* Largest value of the max_concurrent_purchases flag.
MaxConcurrent == 2

\* Days the free-running clock of ClockSpec is followed for.
MaxDays == 9

\* The flag values of the trading runs.
\* -purchase_quanity
PurchaseQty == 2

\* -backtest_starting_cash: the default, and one that pays for a single purchase.
StartingCash == 100000

TightStartingCash == 30000

\* -num_historical_bars_to_use (fakeGetSymbolBars and buyEvent read the same count)
NumHistoricalBarsToUse == 2

\* -min_slope_required_to_buy, in price units per minute
MinSlopeRequiredToBuy == 0

\* -backtest_file_duration_between_action and -duration_between_action, seconds
StepSeconds == 60

\* -time_before_market_close_to_sell, seconds
TimeBeforeMarketCloseToSell == 3600

Day == 24 * 3600

\* -backtest_starttime: Monday 09:28:00, two minutes before the open, and
\* Monday 14:57:00, four minutes before the pre-close window.
StartTimes == {9 * 3600 + 28 * 60, 14 * 3600 + 57 * 60}

\* The price samples a record may carry.
Samples ==
    { [High |-> 10000, Low |-> 9990,  Close |-> 10000],
      [High |-> 10030, Low |-> 10000, Close |-> 10030],
      [High |-> 10030, Low |-> 10010, Close |-> 10015] }

---------------------------------------------------------------------------
(* Pointers: nil is the empty sequence, a set pointer a one-element one.   *)

NilPtr == << >>

Ptr(x) == << x >>

Deref(p) == p[1]

---------------------------------------------------------------------------
(* time.Time                                                               *)

\* Go's Weekday(): Sunday = 0 ... Saturday = 6; second 0 is a Monday.
Weekday(t) == ((t \div Day) + 1) % 7

Hour(t) == (t % Day) \div 3600

Minute(t) == (t % 3600) \div 60

Second(t) == t % 60

\* time.Date(y, m, d, h, mi, 0, 0, EST) for the calendar day of t.
DateOfDay(t, h, mi) == (t - (t % Day)) + h * 3600 + mi * 60

timeToMinuteStart(t) == t - (t % 60)

---------------------------------------------------------------------------
(* fakeClock                                                               *)

newFakeClock(start, timeBetweenAction) ==
    [ Now               |-> start - timeBetweenAction,
      TimeBetweenAction |-> timeBetweenAction,
      TodaysOpenTime    |-> DateOfDay(start, 9, 30),
      TodaysCloseTime   |-> DateOfDay(start, 16, 0),
      IsOpen            |-> FALSE ]

\* A variant of updateFakeClock that adds the step only while the market is
\* open.
ClockAfterUpdateStalled(c) == IF c.IsOpen THEN [c EXCEPT !.Now = @ + c.TimeBetweenAction] ELSE c

\* The clock after one updateFakeClock() call.
ClockAfterUpdate(c) ==
    LET now == c.Now + c.TimeBetweenAction
        c1  == [c EXCEPT !.Now = now]
    IN  IF Weekday(now) = 0 THEN c1
        ELSE IF Weekday(now) = 6 THEN c1
        ELSE IF now < c.TodaysOpenTime \/ now > c.TodaysCloseTime
        THEN IF Hour(now) = 9 /\ Minute(now) = 29 /\ Second(now) = 0
             THEN [c1 EXCEPT !.IsOpen = FALSE,
                             !.TodaysOpenTime  = DateOfDay(now, 9, 30),
                             !.TodaysCloseTime = DateOfDay(now, 16, 0)]
             ELSE [c1 EXCEPT !.IsOpen = FALSE]
        ELSE [c1 EXCEPT !.IsOpen = TRUE]

---------------------------------------------------------------------------
(* package purchase                                                        *)

orderCompletedStates ==
    {"filled", "cancelled", "expired", "stopped ", "rejected ", "suspended "}

endedUnsuccessfullyStates ==
    {"cancelled", "expired", "stopped ", "rejected ", "suspended "}

inProgressStates ==
    {"new", "partially_filled", "done_for_day", "accepted ", "pending_new ",
     "accepted_for_bidding", "calculated"}

SellFilled(p) == p.SellOrder # NilPtr /\ Deref(p.SellOrder).Status = "filled"

BuyFilled(p) == p.BuyOrder # NilPtr /\ Deref(p.BuyOrder).Status = "filled"

SellHasStatus(p, s) == p.SellOrder # NilPtr /\ Deref(p.SellOrder).Status = s

BuyHasStatus(p, s) == p.BuyOrder # NilPtr /\ Deref(p.BuyOrder).Status = s

BuyInProgress(p) ==
    p.BuyOrder # NilPtr /\ Deref(p.BuyOrder).Status \in inProgressStates

SellInProgress(p) ==
    p.SellOrder # NilPtr /\ Deref(p.SellOrder).Status \in inProgressStates

InProgressBuyOrder(p) ==
    p.BuyOrder # NilPtr /\ Deref(p.BuyOrder).Status \notin orderCompletedStates

InProgressSellOrder(p) ==
    p.SellOrder # NilPtr /\ Deref(p.SellOrder).Status \notin orderCompletedStates

\* A variant of NotSelling that is true of every purchase whose sell order is
\* not filled.
NotSellingUnlessFilled(p) == ~SellFilled(p)

NotSelling(p) ==
    p.SellOrder = NilPtr \/ Deref(p.SellOrder).Status \in endedUnsuccessfullyStates

\* The float64 of the buy order's FilledAvgPrice.
BuyFilledAvgPriceFloat(p) == Deref(Deref(p.BuyOrder).FilledAvgPrice)

---------------------------------------------------------------------------
(* history: the series historicalData() returns                            *)

\* Decimal places the bracket prices carry beyond a price unit
\* (the factors 1.002, .0012 and .0017 of placeSellOrder).
PriceScale == 10000

\* The first minute at or after start for which the loader's clock reports
\* the market open (start is on a weekday, before that day's close).
FirstOpenMinute(start) ==
    IF start < DateOfDay(start, 9, 30) THEN DateOfDay(start, 9, 30) ELSE start

\* The history built from L contiguous one-minute records whose first is at
\* minute first, record k carrying sample f[k].
\* symbolStartPrice is the close of the
\* first record whose close is not zero: the loader overwrites a zero start
\* price with the next record's close.
HistoryOf(first, L, f) ==
    [ epochToTickerData |->
          [t \in {first + 60 * (k - 1) : k \in 1..L} |->
              Ptr(f[((t - first) \div 60) + 1])],
      endTime          |-> first + 60 * (L - 1),
      symbolStartPrice |->
          LET nz == {k \in 1..L : f[k].Close # 0}
          IN  IF nz = {} THEN 0
              ELSE f[CHOOSE k \in nz : \A j \in nz : k <= j].Close,
      symbolEndPrice   |-> f[L].Close ]

\* fakeCurrentPrice's lookup as a pointer: nil when the minute has no entry
\* (the code panics) or a nil entry (its first field access panics).
CurrentPricePtr ==
    LET t == timeToMinuteStart(backtestClock.Now)
    IN  IF t \in DOMAIN backtestHistory.epochToTickerData
        THEN backtestHistory.epochToTickerData[t]
        ELSE NilPtr

---------------------------------------------------------------------------
(* client: the purchase filters (indices into c.purchases, in list order)  *)

Indices(ps) == [i \in 1..Len(ps) |-> i]

\* The test of boughtNotSelling's loop body.
BoughtNotSelling(p) == BuyFilled(p) /\ NotSelling(p)

boughtNotSelling(ps) ==
    SelectSeq(Indices(ps), LAMBDA i : BoughtNotSelling(ps[i]))

\* The switch of inProgressPurchases' loop body.
InProgressPurchase(p) ==
    IF SellFilled(p) THEN FALSE
    ELSE IF BuyInProgress(p) \/ SellInProgress(p) THEN TRUE
    ELSE IF BuyHasStatus(p, "replaced") \/ SellHasStatus(p, "replaced") THEN TRUE
    ELSE FALSE

inProgressPurchases(ps) ==
    SelectSeq(Indices(ps), LAMBDA i : InProgressPurchase(ps[i]))

\* A variant of inProgressBuyOrders that lists every purchase, its buy order
\* pending or not.
inProgressBuyOrdersAll(ps) == Indices(ps)

inProgressBuyOrders(ps) ==
    SelectSeq(Indices(ps), LAMBDA i : InProgressBuyOrder(ps[i]))

inProgressSellOrders(ps) ==
    SelectSeq(Indices(ps), LAMBDA i : InProgressSellOrder(ps[i]))

---------------------------------------------------------------------------
(* the simulated broker                                                    *)

\* The order fakePlaceBuyOrder appends, inside its purchase.
NewBuyPurchase(id, now) ==
    [ BuyOrder  |-> Ptr([ ID |-> id, Status |-> "new", Side |-> "buy",
                          Qty |-> flags.purchaseQty, FilledQty |-> 0,
                          FilledAvgPrice |-> NilPtr, LimitPrice |-> NilPtr,
                          Legs |-> NilPtr, CreatedAt |-> now ]),
      SellOrder |-> NilPtr ]

\* The order fakePlaceSellOrder stores, from the request's bracket prices.
NewSellOrder(id, profitLimitPrice, stopPrice, lossLimitPrice) ==
    [ ID |-> id, Status |-> "new", Side |-> "sell",
      Qty |-> flags.purchaseQty, FilledQty |-> 0,
      FilledAvgPrice |-> NilPtr, LimitPrice |-> Ptr(profitLimitPrice),
      Legs |-> Ptr([StopPrice |-> Ptr(stopPrice), LimitPrice |-> Ptr(lossLimitPrice)]),
      CreatedAt |-> 0 ]

\* The bracket of placeSellOrder around the buy's average fill price.
ProfitLimitPrice(basePrice) == basePrice * 10020

\* A variant of the stop price that lies 0.12% above the base price.
StopPriceAbove(basePrice) == basePrice * PriceScale + basePrice * 12

StopPrice(basePrice) == basePrice * PriceScale - basePrice * 12

LossLimitPrice(basePrice) == basePrice * PriceScale - basePrice * 17

\* A variant of placeSellOrder that returns before it places the order.
placeSellOrderSkipped(p, id) == p

\* A variant of placeSellOrder whose order takes the counter's value as it
\* stands, without the increment of fakePlaceSellOrder.
placeSellOrderSameID(p, id) ==
    LET basePrice == BuyFilledAvgPriceFloat(p)
    IN  IF basePrice = 0 THEN p
        ELSE [p EXCEPT !.SellOrder =
                 Ptr(NewSellOrder(id, ProfitLimitPrice(basePrice),
                                  StopPrice(basePrice), LossLimitPrice(basePrice)))]

\* placeSellOrder for purchase p when the order counter stands at id:
\* the purchase afterwards (unchanged when the base price is 0).
placeSellOrder(p, id) ==
    LET basePrice == BuyFilledAvgPriceFloat(p)
    IN  IF basePrice = 0 THEN p
        ELSE [p EXCEPT !.SellOrder =
                 Ptr(NewSellOrder(id + 1, ProfitLimitPrice(basePrice),
                                  StopPrice(basePrice), LossLimitPrice(basePrice)))]

\* A variant of SellCase that tests the stop price before the leg's limit price.
SellCaseStopFirst(o, h) ==
    LET close == h.Close * PriceScale
        leg   == Deref(o.Legs)
    IN  IF o.Legs = NilPtr \/ o.LimitPrice = NilPtr THEN "panic"
        ELSE IF close >= Deref(o.LimitPrice) THEN "profit"
        ELSE IF leg.StopPrice = NilPtr THEN "panic"
        ELSE IF close <= Deref(leg.StopPrice) THEN "stop"
        ELSE IF leg.LimitPrice = NilPtr THEN "panic"
        ELSE IF close <= Deref(leg.LimitPrice) THEN "surpassed"
        ELSE "none"

\* Which branch of fakeSellAttempt's switch the close price selects; "panic"
\* when legs := *o.Legs or a case's expression dereferences a nil pointer.
SellCase(o, h) ==
    LET close == h.Close * PriceScale
        leg   == Deref(o.Legs)
    IN  IF o.Legs = NilPtr \/ o.LimitPrice = NilPtr THEN "panic"
        ELSE IF close >= Deref(o.LimitPrice) THEN "profit"
        ELSE IF leg.LimitPrice = NilPtr THEN "panic"
        ELSE IF close <= Deref(leg.LimitPrice) THEN "surpassed"
        ELSE IF leg.StopPrice = NilPtr THEN "panic"
        ELSE IF close <= Deref(leg.StopPrice) THEN "stop"
        ELSE "none"

\* Variants that fill a sell at the close and a buy at the low.
SellFillPriceAtClose(h) == h.Close

BuyFillPriceAtLow(h) == h.Low

\* The price a sell fills at, and the price a buy fills at.
SellFillPrice(h) == h.Low

BuyFillPrice(h) == h.High

\* A variant of fakeSellAttempt that credits the price once, not per share.
fakeSellAttemptUnitCash(o, gate, hp, cash, held) ==
    IF ~gate
    THEN [order |-> o, cash |-> cash, held |-> held, panic |-> FALSE]
    ELSE IF hp = NilPtr \/ SellCase(o, Deref(hp)) = "panic"
    THEN [order |-> o, cash |-> cash, held |-> held, panic |-> TRUE]
    ELSE IF SellCase(o, Deref(hp)) \in {"profit", "stop"}
    THEN [ order |-> [o EXCEPT !.Status = "filled", !.FilledQty = o.Qty,
                               !.FilledAvgPrice = Ptr(SellFillPrice(Deref(hp)))],
           cash  |-> cash + SellFillPrice(Deref(hp)),
           held  |-> held - o.Qty,
           panic |-> FALSE ]
    ELSE [order |-> o, cash |-> cash, held |-> held, panic |-> FALSE]

\* A variant of fakeSellAttempt that takes two shares off the ledger per share sold.
fakeSellAttemptDoubleShares(o, gate, hp, cash, held) ==
    IF ~gate
    THEN [order |-> o, cash |-> cash, held |-> held, panic |-> FALSE]
    ELSE IF hp = NilPtr \/ SellCase(o, Deref(hp)) = "panic"
    THEN [order |-> o, cash |-> cash, held |-> held, panic |-> TRUE]
    ELSE IF SellCase(o, Deref(hp)) \in {"profit", "stop"}
    THEN [ order |-> [o EXCEPT !.Status = "filled", !.FilledQty = o.Qty,
                               !.FilledAvgPrice = Ptr(SellFillPrice(Deref(hp)))],
           cash  |-> cash + SellFillPrice(Deref(hp)) * o.Qty,
           held  |-> held - 2 * o.Qty,
           panic |-> FALSE ]
    ELSE [order |-> o, cash |-> cash, held |-> held, panic |-> FALSE]

\* fakeSellAttempt: order, cash and shares afterwards, for the gate's answer
\* and the current sample hp; panic when the lookup of the sample fails.
\* A variant of fakeSellAttempt that fills without setting the status.
fakeSellAttemptStatusKept(o, gate, hp, cash, held) ==
    IF ~gate
    THEN [order |-> o, cash |-> cash, held |-> held, panic |-> FALSE]
    ELSE IF hp = NilPtr \/ SellCase(o, Deref(hp)) = "panic"
    THEN [order |-> o, cash |-> cash, held |-> held, panic |-> TRUE]
    ELSE IF SellCase(o, Deref(hp)) \in {"profit", "stop"}
    THEN [ order |-> [o EXCEPT !.FilledQty = o.Qty,
                               !.FilledAvgPrice = Ptr(SellFillPrice(Deref(hp)))],
           cash  |-> cash + SellFillPrice(Deref(hp)) * o.Qty,
           held  |-> held - o.Qty,
           panic |-> FALSE ]
    ELSE [order |-> o, cash |-> cash, held |-> held, panic |-> FALSE]

fakeSellAttempt(o, gate, hp, cash, held) ==
    IF ~gate
    THEN [order |-> o, cash |-> cash, held |-> held, panic |-> FALSE]
    ELSE IF hp = NilPtr \/ SellCase(o, Deref(hp)) = "panic"
    THEN [order |-> o, cash |-> cash, held |-> held, panic |-> TRUE]
    ELSE IF SellCase(o, Deref(hp)) \in {"profit", "stop"}
    THEN [ order |-> [o EXCEPT !.Status = "filled", !.FilledQty = o.Qty,
                               !.FilledAvgPrice = Ptr(SellFillPrice(Deref(hp)))],
           cash  |-> cash + SellFillPrice(Deref(hp)) * o.Qty,
           held  |-> held - o.Qty,
           panic |-> FALSE ]
    ELSE [order |-> o, cash |-> cash, held |-> held, panic |-> FALSE]

\* A variant of fakeBuyAttempt that does not consult the gate.
fakeBuyAttemptUngated(o, gate, hp, cash, held) ==
    IF hp = NilPtr
    THEN [order |-> o, cash |-> cash, held |-> held, panic |-> TRUE]
    ELSE [ order |-> [o EXCEPT !.Status = "filled", !.FilledQty = o.Qty,
                               !.FilledAvgPrice = Ptr(BuyFillPrice(Deref(hp)))],
           cash  |-> cash - BuyFillPrice(Deref(hp)) * o.Qty,
           held  |-> held + o.Qty,
           panic |-> FALSE ]

\* fakeBuyAttempt, likewise.
\* A variant of fakeBuyAttempt that adds one share whatever the quantity.
fakeBuyAttemptOneShare(o, gate, hp, cash, held) ==
    IF ~gate
    THEN [order |-> o, cash |-> cash, held |-> held, panic |-> FALSE]
    ELSE IF hp = NilPtr
    THEN [order |-> o, cash |-> cash, held |-> held, panic |-> TRUE]
    ELSE [ order |-> [o EXCEPT !.Status = "filled", !.FilledQty = o.Qty,
                               !.FilledAvgPrice = Ptr(BuyFillPrice(Deref(hp)))],
           cash  |-> cash - BuyFillPrice(Deref(hp)) * o.Qty,
           held  |-> held + 1,
           panic |-> FALSE ]

fakeBuyAttempt(o, gate, hp, cash, held) ==
    IF ~gate
    THEN [order |-> o, cash |-> cash, held |-> held, panic |-> FALSE]
    ELSE IF hp = NilPtr
    THEN [order |-> o, cash |-> cash, held |-> held, panic |-> TRUE]
    ELSE [ order |-> [o EXCEPT !.Status = "filled", !.FilledQty = o.Qty,
                               !.FilledAvgPrice = Ptr(BuyFillPrice(Deref(hp)))],
           cash  |-> cash - BuyFillPrice(Deref(hp)) * o.Qty,
           held  |-> held + o.Qty,
           panic |-> FALSE ]

\* A variant of CloseOutCash that sells at the high.
CloseOutCashAtHigh(h, cash, held) == cash + h.High * held

\* fakeCloseOutTrading's ledger: cash after the market sell at the low.
CloseOutCash(h, cash, held) == cash + h.Low * held

\* fakeOrder's search: the first purchase whose buy or sell order has the id,
\* as <<index, side>>; << >> when there is none.
FakeOrderFind(ps, id) ==
    LET hit(i) == \/ Deref(ps[i].BuyOrder).ID = id
                  \/ (ps[i].SellOrder # NilPtr /\ Deref(ps[i].SellOrder).ID = id)
        hits   == {i \in 1..Len(ps) : hit(i)}
    IN  IF hits = {} THEN << >>
        ELSE LET i == CHOOSE j \in hits : \A k \in hits : j <= k
             IN  IF Deref(ps[i].BuyOrder).ID = id THEN <<i, "buy">> ELSE <<i, "sell">>

OrderAt(ps, at) ==
    IF at[2] = "buy" THEN Deref(ps[at[1]].BuyOrder) ELSE Deref(ps[at[1]].SellOrder)

WithOrder(ps, i, side, o) ==
    IF side = "buy" THEN [ps EXCEPT ![i].BuyOrder = Ptr(o)]
    ELSE [ps EXCEPT ![i].SellOrder = Ptr(o)]

---------------------------------------------------------------------------
(* the strategy: buy and sell                                              *)

\* A variant of fakeGetSymbolBars that reports a close of 0 for a minute the
\* series does not hold instead of returning nil.
fakeGetSymbolBarsZeroFilled ==
    LET N      == flags.numHistoricalBarsToUse
        key(k) == timeToMinuteStart(backtestClock.Now) - (N + 1 - k) * 60
        data   == backtestHistory.epochToTickerData
    IN  [k \in 1..N |-> IF key(k) \in DOMAIN data THEN Deref(data[key(k)]).Close ELSE 0]

\* A variant of fakeGetSymbolBars whose N minutes end with the current one.
fakeGetSymbolBarsThroughNow ==
    LET N      == flags.numHistoricalBarsToUse
        key(k) == timeToMinuteStart(backtestClock.Now) - (N - k) * 60
        data   == backtestHistory.epochToTickerData
    IN  IF \A k \in 1..N : key(k) \in DOMAIN data
        THEN [k \in 1..N |-> Deref(data[key(k)]).Close]
        ELSE << >>

\* fakeGetSymbolBars: the closes of the N minutes before the current one,
\* oldest first; nil (the empty sequence) when one of them is missing.
fakeGetSymbolBars ==
    LET N      == flags.numHistoricalBarsToUse
        key(k) == timeToMinuteStart(backtestClock.Now) - (N + 1 - k) * 60
        data   == backtestHistory.epochToTickerData
    IN  IF \A k \in 1..N : key(k) \in DOMAIN data
        THEN [k \in 1..N |-> Deref(data[key(k)]).Close]
        ELSE << >>

\* Sums of the least-squares fit of bars against their index x = 0..n-1.
RECURSIVE Sum(_)
Sum(seq) == IF seq = << >> THEN 0 ELSE Head(seq) + Sum(Tail(seq))

SlopeNumerator(bars) ==
    LET n     == Len(bars)
        sumX  == Sum([k \in 1..n |-> k - 1])
        sumY  == Sum(bars)
        sumXY == Sum([k \in 1..n |-> (k - 1) * bars[k]])
    IN  n * sumXY - sumX * sumY

SlopeDenominator(bars) ==
    LET n     == Len(bars)
        sumX  == Sum([k \in 1..n |-> k - 1])
        sumX2 == Sum([k \in 1..n |-> (k - 1) * (k - 1)])
    IN  n * sumX2 - sumX * sumX

\* m >= minSlopeRequiredToBuy, for the positive denominator of two or more bars.
barsImprovementSlope(bars) ==
    IF bars[Len(bars)] < bars[1] THEN FALSE
    ELSE SlopeNumerator(bars) >= flags.minSlopeRequiredToBuy * SlopeDenominator(bars)

allPositiveImprovements(bars) ==
    \A i \in 2..Len(bars) : ~(bars[i] <= bars[i - 1])

\* cash >= neededCash, neededCash = bars[0].Close * purchaseQty * 1.2
EnoughCash(cash, bars) == cash * 10 >= bars[1] * flags.purchaseQty * 12

buyEvent ==
    LET bars == fakeGetSymbolBars
    IN  IF Len(bars) < flags.numHistoricalBarsToUse THEN FALSE
        ELSE IF ~EnoughCash(backtestCash, bars) THEN FALSE
        ELSE IF ~barsImprovementSlope(bars) THEN FALSE
        ELSE IF flags.allSequentialIncreasesToBuy /\ ~allPositiveImprovements(bars) THEN FALSE
        ELSE TRUE

\* The guard of buy(): the cap leaves room for another purchase.
BelowCap(ps, cap) == ~(Len(inProgressPurchases(ps)) >= cap)

\* sell()'s loop: placeSellOrder for each purchase of the slice idxs, in order.
RECURSIVE PlaceSellOrders(_, _, _)
PlaceSellOrders(ps, idxs, id) ==
    IF idxs = << >> THEN [purchases |-> ps, orderID |-> id]
    ELSE LET i  == Head(idxs)
             p2 == placeSellOrder(ps[i], id)
         IN  PlaceSellOrders([ps EXCEPT ![i] = p2], Tail(idxs),
                             IF p2 = ps[i] THEN id ELSE id + 1)

---------------------------------------------------------------------------
(* backtest(): the driver loop                                             *)

\* lastCall: the call the driver completed last (op), the order id it was
\* about, what randomFillOrder answered in it, and the cash, the shares held
\* and the number of pending orders it started from.
\* Nothing was printed.
NoReport == << >>

NoCall ==
    [op |-> "none", id |-> 0, gate |-> FALSE, cash |-> 0, held |-> 0, pending |-> 0,
     report |-> NoReport]

PendingOrders(ps) ==
    Cardinality({i \in 1..Len(ps) : Deref(ps[i].BuyOrder).Status = "new"})
    + Cardinality({i \in 1..Len(ps) :
                     ps[i].SellOrder # NilPtr /\ Deref(ps[i].SellOrder).Status = "new"})

Call(op, id, gate) ==
    [op |-> op, id |-> id, gate |-> gate,
     cash |-> backtestCash, held |-> backtestStockHeldQty,
     pending |-> PendingOrders(purchases), report |-> NoReport]

\* The ids of the orders whose attempt the gate rejected in the current tick
\* (rejected), and of those it rejected in the tick before that updateOrders
\* has not attempted in the current tick (owed).
NoAttempts == [rejected |-> {}, owed |-> {}]

\* historicalData() is not running: newFake() has its result.
NoLoader == [records |-> << >>]

\* A backtest: main() returns from backtest() and never enters its live loop.
NoLive == [runs |-> << >>]

\* A backtest: the database client is the fake one, which stores nothing.
NoDB == [rows |-> << >>]

Attempted(id, gate) ==
    [ rejected |-> IF gate THEN attempts.rejected ELSE attempts.rejected \cup {id},
      owed     |-> attempts.owed \ {id} ]

\* The flags of a trading run.
TradingFlags ==
    { [ purchaseQty                 |-> PurchaseQty,
        maxConcurrentPurchases      |-> cap,
        numHistoricalBarsToUse      |-> NumHistoricalBarsToUse,
        minSlopeRequiredToBuy       |-> MinSlopeRequiredToBuy,
        allSequentialIncreasesToBuy |-> FALSE,
        backtestPrintDayDetails     |-> FALSE,
        durationBetweenAction       |-> StepSeconds,
        timeBeforeMarketCloseToSell |-> TimeBeforeMarketCloseToSell,
        backtestStartingCash        |-> cash,
        backtestStartTime           |-> start ] :
      cap \in 1..MaxConcurrent, cash \in {StartingCash, TightStartingCash},
      start \in StartTimes }

\* The flags of a run with a cap of one purchase, from a start time.
LoadFlags(start) ==
    [ purchaseQty                 |-> PurchaseQty,
      maxConcurrentPurchases      |-> 1,
      numHistoricalBarsToUse      |-> NumHistoricalBarsToUse,
      minSlopeRequiredToBuy       |-> MinSlopeRequiredToBuy,
      allSequentialIncreasesToBuy |-> FALSE,
      backtestPrintDayDetails     |-> FALSE,
      durationBetweenAction       |-> StepSeconds,
      timeBeforeMarketCloseToSell |-> TimeBeforeMarketCloseToSell,
      backtestStartingCash        |-> StartingCash,
      backtestStartTime           |-> start ]

\* newFake(): the client after construction, for flags fl and history h.
newFake(fl, h) ==
    /\ flags = fl
    /\ backtestHistory = h
    /\ backtestClock = newFakeClock(fl.backtestStartTime, fl.durationBetweenAction)
    /\ concurrentPurchases = fl.maxConcurrentPurchases
    /\ purchases = << >>
    /\ backtestOrderID = 0
    /\ backtestStockHeldQty = 0
    /\ backtestCash = fl.backtestStartingCash
    /\ backtestCashStart = fl.backtestStartingCash
    /\ backtestCashStartOfDay = fl.backtestStartingCash
    /\ backtestSymbolStartOfDay = 0
    /\ backtestSymbolEndOfDay = 0
    /\ trading = FALSE
    /\ pc = "loop"
    /\ todo = << >>
    /\ lastCall = NoCall
    /\ attempts = NoAttempts
    /\ loader = NoLoader
    /\ live = NoLive
    /\ db = NoDB

Init ==
    \E fl \in TradingFlags, L \in 1..MaxMinutes :
       \E f \in [1..L -> Samples] :
          newFake(fl, HistoryOf(FirstOpenMinute(fl.backtestStartTime), L, f))

config == <<flags, backtestHistory, concurrentPurchases, backtestCashStart>>

ledger == <<purchases, backtestOrderID, backtestStockHeldQty, backtestCash,
            backtestCashStartOfDay>>

symbol == <<backtestSymbolStartOfDay, backtestSymbolEndOfDay, trading>>

\* The loop condition holds: c.backtestClock.updateFakeClock().
updateFakeClock ==
    /\ pc = "loop"
    /\ backtestHistory.endTime >= backtestClock.Now
    /\ backtestClock' = ClockAfterUpdate(backtestClock)
    /\ pc' = "updateOrders"
    /\ lastCall' = Call("updateFakeClock", 0, FALSE)
    /\ attempts' = [rejected |-> {}, owed |-> attempts.rejected]
    /\ UNCHANGED <<config, ledger, symbol, todo>>
    /\ UNCHANGED <<loader, live, db>>

\* profitLossPercent(start, end): the quotient (end - start) / start * 100 as
\* a fraction; the decimal division panics on a zero divisor.
profitLossPercent(start, end) ==
    [num |-> (end - start) * 100, den |-> start, panic |-> start = 0]

\* The report after the loop: strategy and symbol profit/loss; the algorithm
\* benefit is the first minus the second.
Report ==
    [ profitLoss       |-> profitLossPercent(backtestCashStart, backtestCash),
      symbolProfitLoss |-> profitLossPercent(backtestHistory.symbolStartPrice,
                                             backtestHistory.symbolEndPrice) ]

\* The loop condition fails: the run ends with the report.
LoopExit ==
    /\ pc = "loop"
    /\ ~(backtestHistory.endTime >= backtestClock.Now)
    /\ pc' = (IF Report.profitLoss.panic \/ Report.symbolProfitLoss.panic
              THEN "panic" ELSE "done")
    /\ lastCall' = Call("report", 0, FALSE)
    /\ UNCHANGED <<backtestClock, config, ledger, symbol, todo>>
    /\ UNCHANGED <<attempts, loader, live, db>>

\* updateOrders: the first loop's range expression.
BeginBuyUpdates ==
    /\ pc = "updateOrders"
    /\ todo' = inProgressBuyOrders(purchases)
    /\ pc' = "buyOrders"
    /\ UNCHANGED <<backtestClock, config, ledger, symbol, lastCall>>
    /\ UNCHANGED <<attempts, loader, live, db>>

\* One iteration of a loop of updateOrders for purchase i of the slice:
\* order := c.order(id), that is fakeOrder(id), then o.BuyOrder = order
\* (slot "buy") or o.SellOrder = order (slot "sell").
OrderCall(i, slot) ==
    LET id == IF slot = "buy" THEN Deref(purchases[i].BuyOrder).ID
              ELSE Deref(purchases[i].SellOrder).ID
        at == FakeOrderFind(purchases, id)
    IN  IF at = << >>
        THEN /\ pc' = "panic"
             /\ lastCall' = Call("fakeOrder", id, FALSE)
             /\ UNCHANGED <<ledger, todo, attempts>>
        ELSE
        LET o == OrderAt(purchases, at)
        IN  IF o.Status # "new"
            THEN /\ purchases' = WithOrder(purchases, i, slot, o)
                 /\ lastCall' = Call("fakeOrder", id, FALSE)
                 /\ todo' = Tail(todo)
                 /\ UNCHANGED <<pc, backtestOrderID, backtestStockHeldQty,
                                backtestCash, backtestCashStartOfDay, attempts>>
            ELSE \E gate \in BOOLEAN :
                 LET r == IF o.Side = "sell"
                          THEN fakeSellAttempt(o, gate, CurrentPricePtr,
                                               backtestCash, backtestStockHeldQty)
                          ELSE fakeBuyAttempt(o, gate, CurrentPricePtr,
                                              backtestCash, backtestStockHeldQty)
                     op == IF o.Side = "sell" THEN "fakeSellAttempt"
                           ELSE "fakeBuyAttempt"
                 IN  /\ lastCall' = Call(op, id, gate)
                     /\ attempts' = Attempted(id, gate)
                     /\ IF r.panic
                        THEN /\ pc' = "panic"
                             /\ UNCHANGED <<ledger, todo>>
                        ELSE /\ purchases' =
                                  WithOrder(WithOrder(purchases, at[1], at[2], r.order),
                                            i, slot, r.order)
                             /\ backtestCash' = r.cash
                             /\ backtestStockHeldQty' = r.held
                             /\ todo' = Tail(todo)
                             /\ UNCHANGED <<pc, backtestOrderID, backtestCashStartOfDay>>

UpdateBuyOrder ==
    /\ pc = "buyOrders"
    /\ todo # << >>
    /\ OrderCall(Head(todo), "buy")
    /\ UNCHANGED <<backtestClock, config, symbol>>
    /\ UNCHANGED <<loader, live, db>>

\* updateOrders: the second loop's range expression.
BeginSellUpdates ==
    /\ pc = "buyOrders"
    /\ todo = << >>
    /\ todo' = inProgressSellOrders(purchases)
    /\ pc' = "sellOrders"
    /\ UNCHANGED <<backtestClock, config, ledger, symbol, lastCall>>
    /\ UNCHANGED <<attempts, loader, live, db>>

UpdateSellOrder ==
    /\ pc = "sellOrders"
    /\ todo # << >>
    /\ OrderCall(Head(todo), "sell")
    /\ UNCHANGED <<backtestClock, config, symbol>>
    /\ UNCHANGED <<loader, live, db>>

\* updateOrders returns; timeUntilMarketClose is computed next.
EndUpdates ==
    /\ pc = "sellOrders"
    /\ todo = << >>
    /\ pc' = "switch"
    /\ UNCHANGED <<backtestClock, config, ledger, symbol, todo, lastCall>>
    /\ UNCHANGED <<attempts, loader, live, db>>

timeUntilMarketClose == backtestClock.TodaysCloseTime - backtestClock.Now

ClosingSoon ==
    timeUntilMarketClose > 0 /\ timeUntilMarketClose < flags.timeBeforeMarketCloseToSell

\* case "market is closing soon", up to the call of closeOutTrading.
MarketClosingSoon ==
    /\ pc = "switch"
    /\ ClosingSoon
    /\ IF trading
       THEN IF CurrentPricePtr = NilPtr
            THEN /\ pc' = "panic"
                 /\ UNCHANGED symbol
            ELSE /\ backtestSymbolEndOfDay' = Deref(CurrentPricePtr).Close
                 /\ trading' = FALSE
                 /\ pc' = "closeOut"
                 /\ UNCHANGED backtestSymbolStartOfDay
       ELSE /\ pc' = "closeOut"
            /\ UNCHANGED symbol
    /\ lastCall' = Call("switch", 0, FALSE)
    /\ UNCHANGED <<backtestClock, config, ledger, todo>>
    /\ UNCHANGED <<attempts, loader, live, db>>

\* A variant of endOfDayReport that measures the day from the cash it is
\* handed, as if the day-start snapshot had been overwritten before the call.
endOfDayReportAfterSnapshot(cash) ==
    IF ~flags.backtestPrintDayDetails THEN NoReport
    ELSE << [ profitLoss       |-> profitLossPercent(cash, cash),
              symbolProfitLoss |-> profitLossPercent(backtestSymbolStartOfDay,
                                                     backtestSymbolEndOfDay),
              ordersCreated    |-> backtestOrderID,
              cash             |-> cash ] >>

\* endOfDayReport() when the cash stands at cash: nothing unless
\* --backtest_print_day_details is set, else the day's figures, printed
\* (a division by a zero start value panics).
endOfDayReport(cash) ==
    IF ~flags.backtestPrintDayDetails THEN NoReport
    ELSE << [ profitLoss       |-> profitLossPercent(backtestCashStartOfDay, cash),
              symbolProfitLoss |-> profitLossPercent(backtestSymbolStartOfDay,
                                                     backtestSymbolEndOfDay),
              ordersCreated    |-> backtestOrderID,
              cash             |-> cash ] >>

ReportPanics(r) ==
    r # NoReport /\ (r[1].profitLoss.panic \/ r[1].symbolProfitLoss.panic)

\* closeOutTrading(), that is fakeCloseOutTrading().
closeOutTrading ==
    /\ pc = "closeOut"
    /\ IF CurrentPricePtr = NilPtr
       THEN /\ pc' = "panic"
            /\ lastCall' = Call("fakeCloseOutTrading", backtestOrderID, FALSE)
            /\ UNCHANGED ledger
       ELSE IF ReportPanics(endOfDayReport(
                  CloseOutCash(Deref(CurrentPricePtr), backtestCash, backtestStockHeldQty)))
       THEN /\ pc' = "panic"
            /\ lastCall' = Call("endOfDayReport", backtestOrderID, FALSE)
            /\ UNCHANGED ledger
       ELSE /\ backtestCash' =
                 CloseOutCash(Deref(CurrentPricePtr), backtestCash, backtestStockHeldQty)
            /\ lastCall' =
                 [Call("fakeCloseOutTrading", backtestOrderID, FALSE)
                    EXCEPT !.report = endOfDayReport(backtestCash')]
            /\ backtestStockHeldQty' = 0
            /\ backtestOrderID' = 0
            /\ purchases' = << >>
            /\ backtestCashStartOfDay' = backtestCash'
            /\ pc' = "jump"
    /\ UNCHANGED <<backtestClock, config, symbol, todo>>
    /\ UNCHANGED <<attempts, loader, live, db>>

\* A variant of the pre-close branch's jump that also marks the market closed.
PreCloseJumpClosing ==
    /\ pc = "jump"
    /\ backtestClock' =
         [backtestClock EXCEPT !.Now = @ + flags.timeBeforeMarketCloseToSell,
                               !.IsOpen = FALSE]
    /\ pc' = "loop"
    /\ lastCall' = Call("jump", 0, FALSE)
    /\ UNCHANGED <<config, ledger, symbol, todo>>
    /\ UNCHANGED <<attempts, loader, live, db>>

\* c.backtestClock.Now = c.backtestClock.Now.Add(*timeBeforeMarketCloseToSell)
PreCloseJump ==
    /\ pc = "jump"
    /\ backtestClock' =
         [backtestClock EXCEPT !.Now = @ + flags.timeBeforeMarketCloseToSell]
    /\ pc' = "loop"
    /\ lastCall' = Call("jump", 0, FALSE)
    /\ UNCHANGED <<config, ledger, symbol, todo>>
    /\ UNCHANGED <<attempts, loader, live, db>>

\* case !c.backtestClock.IsOpen
MarketNotOpen ==
    /\ pc = "switch"
    /\ ~ClosingSoon
    /\ ~backtestClock.IsOpen
    /\ pc' = "loop"
    /\ lastCall' = Call("switch", 0, FALSE)
    /\ UNCHANGED <<backtestClock, config, ledger, symbol, todo>>
    /\ UNCHANGED <<attempts, loader, live, db>>

\* default: the market is open; c.run begins (cancelOutdatedOrders does nothing).
MarketOpen ==
    /\ pc = "switch"
    /\ ~ClosingSoon
    /\ backtestClock.IsOpen
    /\ IF ~trading
       THEN IF CurrentPricePtr = NilPtr
            THEN /\ pc' = "panic"
                 /\ UNCHANGED symbol
            ELSE /\ backtestSymbolStartOfDay' = Deref(CurrentPricePtr).Close
                 /\ trading' = TRUE
                 /\ pc' = "buy"
                 /\ UNCHANGED backtestSymbolEndOfDay
       ELSE /\ pc' = "buy"
            /\ UNCHANGED symbol
    /\ lastCall' = Call("switch", 0, FALSE)
    /\ UNCHANGED <<backtestClock, config, ledger, todo>>
    /\ UNCHANGED <<attempts, loader, live, db>>

\* c.buy(t)
buy ==
    /\ pc = "buy"
    /\ IF BelowCap(purchases, concurrentPurchases) /\ buyEvent
       THEN /\ backtestOrderID' = backtestOrderID + 1
            /\ purchases' = Append(purchases,
                                   NewBuyPurchase(backtestOrderID + 1, backtestClock.Now))
            /\ lastCall' = Call("fakePlaceBuyOrder", backtestOrderID + 1, FALSE)
       ELSE /\ UNCHANGED <<backtestOrderID, purchases>>
            /\ lastCall' = Call("buy", 0, FALSE)
    /\ pc' = "sell"
    /\ UNCHANGED <<backtestClock, config, backtestStockHeldQty, backtestCash,
                   backtestCashStartOfDay, symbol, todo>>
    /\ UNCHANGED <<attempts, loader, live, db>>

\* c.sell()
sell ==
    /\ pc = "sell"
    /\ LET r == PlaceSellOrders(purchases, boughtNotSelling(purchases), backtestOrderID)
       IN  /\ purchases' = r.purchases
           /\ backtestOrderID' = r.orderID
    /\ pc' = "loop"
    /\ lastCall' = Call("sell", 0, FALSE)
    /\ UNCHANGED <<backtestClock, config, backtestStockHeldQty, backtestCash,
                   backtestCashStartOfDay, symbol, todo>>
    /\ UNCHANGED <<attempts, loader, live, db>>

Next ==
    \/ updateFakeClock
    \/ LoopExit
    \/ BeginBuyUpdates
    \/ UpdateBuyOrder
    \/ BeginSellUpdates
    \/ UpdateSellOrder
    \/ EndUpdates
    \/ MarketClosingSoon
    \/ closeOutTrading
    \/ PreCloseJump
    \/ MarketNotOpen
    \/ MarketOpen
    \/ buy
    \/ sell

Spec == Init /\ [][Next]_vars

---------------------------------------------------------------------------
(* The clock on its own: updateFakeClock called again and again (as the    *)
(* loop of historicalData does) and moved by the driver's pre-close jump.  *)

\* Start times: Friday 12:00:00 and Friday 23:59:00.
ClockStartTimes == {4 * Day + 12 * 3600, 4 * Day + 23 * 3600 + 59 * 60}

\* Step durations: one minute and twelve hours.
ClockSteps == {60, 12 * 3600}

ClockFlags ==
    { [ purchaseQty                 |-> PurchaseQty,
        maxConcurrentPurchases      |-> 1,
        numHistoricalBarsToUse      |-> NumHistoricalBarsToUse,
        minSlopeRequiredToBuy       |-> MinSlopeRequiredToBuy,
        allSequentialIncreasesToBuy |-> FALSE,
        backtestPrintDayDetails     |-> FALSE,
        durationBetweenAction       |-> step,
        timeBeforeMarketCloseToSell |-> TimeBeforeMarketCloseToSell,
        backtestStartingCash        |-> StartingCash,
        backtestStartTime           |-> start ] :
      step \in ClockSteps, start \in ClockStartTimes }

NoHistory ==
    [ epochToTickerData |-> << >>, endTime |-> 0,
      symbolStartPrice |-> 0, symbolEndPrice |-> 0 ]

ClockInit ==
    \E fl \in ClockFlags :
       /\ flags = fl
       /\ backtestHistory = NoHistory
       /\ backtestClock = newFakeClock(fl.backtestStartTime, fl.durationBetweenAction)
       /\ concurrentPurchases = fl.maxConcurrentPurchases
       /\ purchases = << >>
       /\ backtestOrderID = 0
       /\ backtestStockHeldQty = 0
       /\ backtestCash = fl.backtestStartingCash
       /\ backtestCashStart = fl.backtestStartingCash
       /\ backtestCashStartOfDay = fl.backtestStartingCash
       /\ backtestSymbolStartOfDay = 0
       /\ backtestSymbolEndOfDay = 0
       /\ trading = FALSE
       /\ pc = "clock"
       /\ todo = << >>
       /\ lastCall = NoCall
       /\ attempts = NoAttempts
       /\ loader = NoLoader
       /\ live = NoLive
       /\ db = NoDB

\* c.updateFakeClock()
ClockTick ==
    /\ pc = "clock"
    /\ backtestClock.Now + backtestClock.TimeBetweenAction <= MaxDays * Day
    /\ backtestClock' = ClockAfterUpdate(backtestClock)
    /\ lastCall' = Call("updateFakeClock", 0, FALSE)
    /\ UNCHANGED <<config, ledger, symbol, pc, todo>>
    /\ UNCHANGED <<attempts, loader, live, db>>

\* The driver's jump over the pre-close window.
ClockJump ==
    /\ pc = "clock"
    /\ ClosingSoon
    /\ backtestClock' =
         [backtestClock EXCEPT !.Now = @ + flags.timeBeforeMarketCloseToSell]
    /\ lastCall' = Call("jump", 0, FALSE)
    /\ UNCHANGED <<config, ledger, symbol, pc, todo>>
    /\ UNCHANGED <<attempts, loader, live, db>>

ClockNext == ClockTick \/ ClockJump

ClockSpec == ClockInit /\ [][ClockNext]_vars

---------------------------------------------------------------------------
(* Trading runs over series that hold a record of zeros, and with cash     *)
(* that is close to what one purchase needs                                *)

\* Starting cash between 1.2 * purchaseQty * 10000 and 1.2 * purchaseQty * 10030.
MarginalStartingCash == 24050

EdgeSamples == Samples \cup {[High |-> 0, Low |-> 0, Close |-> 0]}

EdgeFlags ==
    { [LoadFlags(start) EXCEPT !.backtestStartingCash = cash] :
        cash \in {StartingCash, MarginalStartingCash}, start \in StartTimes }

EdgeInit ==
    \E fl \in EdgeFlags, L \in 1..MaxMinutes :
       \E f \in [1..L -> EdgeSamples] :
          newFake(fl, HistoryOf(FirstOpenMinute(fl.backtestStartTime), L, f))

EdgeSpec == EdgeInit /\ [][Next]_vars

---------------------------------------------------------------------------
(* Trading runs at several step durations and pre-close windows            *)

\* The longest series of these runs, in records.
MaxPaceMinutes == 4

\* Values of --duration_between_action, in seconds.
PaceSteps == {30, 120}

\* Values of --time_before_market_close_to_sell, in seconds.
PaceWindows == {60, 3600}

PaceFlags ==
    { [LoadFlags(start) EXCEPT !.durationBetweenAction       = step,
                               !.timeBeforeMarketCloseToSell = window] :
        step \in PaceSteps, window \in PaceWindows, start \in StartTimes }

\* The records of these series close at their high.
PaceInit ==
    \E fl \in PaceFlags, L \in 1..MaxPaceMinutes :
       \E f \in [1..L -> {s \in Samples : s.Close = s.High}] :
          newFake(fl, HistoryOf(FirstOpenMinute(fl.backtestStartTime), L, f))

\* The driver is one sequential program: it always takes its next step.
PaceFairSpec == PaceInit /\ [][Next]_vars /\ WF_vars(Next)

---------------------------------------------------------------------------
(* A run over a series that opens with the closes 100, 101, 102            *)
(* Prices and cash of these runs are in tenths of a dollar.                *)

\* --purchase_quanity
ScenarioQty == 10

\* --backtest_starting_cash: 100000 dollars.
ScenarioCash == 1000000

\* --min_slope_required_to_buy: one dollar a minute.
ScenarioMinSlope == 10

\* --num_historical_bars_to_use
ScenarioBars == 3

\* The most records that follow the three opening ones.
MaxScenarioTail == 4

\* The three opening records: closes 100, 101, 102, the third with high 102.5.
ScenarioOpening ==
    << [High |-> 1000, Low |-> 1000, Close |-> 1000],
       [High |-> 1010, Low |-> 1000, Close |-> 1010],
       [High |-> 1025, Low |-> 1010, Close |-> 1020] >>

\* The records that may follow them.
ScenarioSamples ==
    { [High |-> 1025, Low |-> 1015, Close |-> 1020],
      [High |-> 1035, Low |-> 1022, Close |-> 1030],
      [High |-> 1020, Low |-> 1000, Close |-> 1010] }

\* Monday 09:28, before the open, and Monday 14:55, six minutes before the
\* pre-close window.
ScenarioStarts == {9 * 3600 + 28 * 60, 14 * 3600 + 55 * 60}

ScenarioFlags ==
    { [LoadFlags(start) EXCEPT !.purchaseQty            = ScenarioQty,
                               !.backtestStartingCash   = ScenarioCash,
                               !.minSlopeRequiredToBuy  = ScenarioMinSlope,
                               !.numHistoricalBarsToUse = bars] :
        start \in ScenarioStarts, bars \in {ScenarioBars - 1, ScenarioBars} }

ScenarioInit ==
    \E fl \in ScenarioFlags, L \in 1..MaxScenarioTail :
       \E f \in [1..L -> ScenarioSamples] :
          newFake(fl, HistoryOf(FirstOpenMinute(fl.backtestStartTime), 3 + L,
                                ScenarioOpening \o f))

ScenarioSpec == ScenarioInit /\ [][Next]_vars

---------------------------------------------------------------------------
(* Trading runs over the last minutes of a session                         *)

\* --backtest_starttime: Monday 15:56:00, four minutes before the close.
LateStart == 15 * 3600 + 56 * 60

\* Values of --duration_between_action, in seconds.
LateSteps == {60, 120}

\* Values of --time_before_market_close_to_sell, in seconds.
LateWindows == {60, 120}

LateFlags ==
    { [LoadFlags(LateStart) EXCEPT !.durationBetweenAction       = step,
                                   !.timeBeforeMarketCloseToSell = window] :
        step \in LateSteps, window \in LateWindows }

\* The series run from 15:56 to 16:00 at most, the last minute for which the
\* loader's clock reports the market open.
LateInit ==
    \E fl \in LateFlags,
       L \in 1..(((DateOfDay(LateStart, 16, 0) - LateStart) \div 60) + 1) :
       \E f \in [1..L -> Samples] :
          newFake(fl, HistoryOf(FirstOpenMinute(fl.backtestStartTime), L, f))

LateSpec == LateInit /\ [][Next]_vars

---------------------------------------------------------------------------
(* Trading runs that go from the end of one session into the next          *)

\* The most records of the second day.
MaxSecondDay == 4

\* --backtest_starttime: Monday 15:55:00.
OvernightStart == 15 * 3600 + 55 * 60

\* --time_before_market_close_to_sell, seconds.
OvernightWindow == 120

\* The records of the first day: 15:55 to 15:59, the tick of the close-out.
FirstDayRecords == 5

\* The history of two runs of one-minute records, the second after the first.
HistoryOfDays(h1, h2) ==
    [ epochToTickerData |->
          [t \in DOMAIN h1.epochToTickerData \cup DOMAIN h2.epochToTickerData |->
              IF t \in DOMAIN h1.epochToTickerData
              THEN h1.epochToTickerData[t] ELSE h2.epochToTickerData[t]],
      endTime          |-> h2.endTime,
      symbolStartPrice |-> IF h1.symbolStartPrice # 0 THEN h1.symbolStartPrice
                           ELSE h2.symbolStartPrice,
      symbolEndPrice   |-> h2.symbolEndPrice ]

\* The day's details are printed at every close-out.
OvernightFlags ==
    [LoadFlags(OvernightStart) EXCEPT !.timeBeforeMarketCloseToSell = OvernightWindow,
                                      !.backtestPrintDayDetails     = TRUE]

\* Monday's records carry one sample up to a last one that is drawn, and
\* Tuesday's, from 09:30 on, carry one sample.
OvernightInit ==
    \E last \in Samples, s \in {x \in Samples : x.Close = x.High},
       L \in (MaxSecondDay - 1)..MaxSecondDay :
       newFake(OvernightFlags,
               HistoryOfDays(
                   HistoryOf(OvernightStart, FirstDayRecords,
                             [k \in 1..FirstDayRecords |->
                                 IF k = FirstDayRecords THEN last ELSE s]),
                   HistoryOf(DateOfDay(OvernightStart + Day, 9, 30), L,
                             [k \in 1..L |-> s])))

OvernightSpec == OvernightInit /\ [][Next]_vars

---------------------------------------------------------------------------
(* sell() on its own: the bracket for every small buy fill price           *)

\* The largest average fill price of the buy, in price units.
MaxBasePrice == 60

\* The driver is about to call sell() with one purchase whose buy order is
\* filled at basePrice and that has no sell order yet.
BracketBegin(fl, basePrice) ==
    /\ flags = fl
    /\ backtestHistory = HistoryOf(fl.backtestStartTime, 1,
                   <<[High |-> basePrice, Low |-> basePrice, Close |-> basePrice]>>)
    /\ backtestClock =
         ClockAfterUpdate(newFakeClock(fl.backtestStartTime, fl.durationBetweenAction))
    /\ concurrentPurchases = fl.maxConcurrentPurchases
    /\ purchases =
         << [ BuyOrder  |-> Ptr([Deref(NewBuyPurchase(1, fl.backtestStartTime).BuyOrder)
                                   EXCEPT !.Qty = fl.purchaseQty,
                                          !.Status = "filled", !.FilledQty = fl.purchaseQty,
                                          !.FilledAvgPrice = Ptr(basePrice)]),
              SellOrder |-> NilPtr ] >>
    /\ backtestOrderID = 1
    /\ backtestStockHeldQty = fl.purchaseQty
    /\ backtestCash = fl.backtestStartingCash - basePrice * fl.purchaseQty
    /\ backtestCashStart = fl.backtestStartingCash
    /\ backtestCashStartOfDay = fl.backtestStartingCash
    /\ backtestSymbolStartOfDay = basePrice
    /\ backtestSymbolEndOfDay = 0
    /\ trading = TRUE
    /\ pc = "sell"
    /\ todo = << >>
    /\ lastCall = NoCall
    /\ attempts = NoAttempts
    /\ loader = NoLoader
    /\ live = NoLive
    /\ db = NoDB

BracketInit ==
    \E basePrice \in 0..MaxBasePrice :
       BracketBegin(LoadFlags(14 * 3600 + 57 * 60), basePrice)

BracketNext == sell

BracketSpec == BracketInit /\ [][BracketNext]_vars

---------------------------------------------------------------------------
(* main(): the live trading loop.  Every ticker tick starts run as a new   *)
(* goroutine; nothing orders the goroutines' reads and writes of the       *)
(* purchase list, so every interleaving at their broker calls can happen.  *)
(* live.runs holds a record per goroutine (where it stands, the rest of    *)
(* the slice sell() ranges over, the order PlaceOrder returned), live.sells *)
(* counts per purchase the sell orders the broker accepted.                *)

\* Ticker ticks the loop receives before done.
MaxLiveTicks == 2

\* The average price the broker fills a buy order at.
LiveFillPrice == 10000

\* The client's backtest fields, which the live loop leaves alone.
idle == <<flags, backtestClock, backtestHistory, concurrentPurchases,
          backtestOrderID, backtestStockHeldQty, backtestCash, backtestCashStart,
          backtestCashStartOfDay, backtestSymbolStartOfDay, backtestSymbolEndOfDay,
          todo, lastCall, attempts, loader>>

\* new() outside a backtest, for flags fl: no backtest state is set up.
Idle(fl) ==
    /\ flags = fl
    /\ backtestHistory = NoHistory
    /\ backtestClock = newFakeClock(fl.backtestStartTime, fl.durationBetweenAction)
    /\ concurrentPurchases = fl.maxConcurrentPurchases
    /\ backtestOrderID = 0
    /\ backtestStockHeldQty = 0
    /\ backtestCash = 0
    /\ backtestCashStart = 0
    /\ backtestCashStartOfDay = 0
    /\ backtestSymbolStartOfDay = 0
    /\ backtestSymbolEndOfDay = 0
    /\ trading = FALSE
    /\ todo = << >>
    /\ lastCall = NoCall
    /\ attempts = NoAttempts
    /\ loader = NoLoader

\* main() has reached its loop; the database returned no purchase of today.
LiveInit ==
    /\ Idle(LoadFlags(14 * 3600 + 57 * 60))
    /\ purchases = << >>
    /\ pc = "select"
    /\ live = [runs |-> << >>, ticks |-> 0, nextID |-> 1, sells |-> << >>]
    /\ db = NoDB

\* What GetOrder returns for a pending order the broker has filled.
LiveFilled(o) ==
    [o EXCEPT !.Status = "filled", !.FilledQty = o.Qty,
              !.FilledAvgPrice = Ptr(LiveFillPrice)]

\* updateOrders() when the broker reports the buy orders of the purchases
\* in buys and the sell orders of those in sells as filled.
LiveUpdateOrders(ps, buys, sells) ==
    [i \in 1..Len(ps) |->
        [ BuyOrder  |-> IF i \in buys THEN Ptr(LiveFilled(Deref(ps[i].BuyOrder)))
                        ELSE ps[i].BuyOrder,
          SellOrder |-> IF i \in sells THEN Ptr(LiveFilled(Deref(ps[i].SellOrder)))
                        ELSE ps[i].SellOrder ]]

Listed(seq) == {seq[k] : k \in 1..Len(seq)}

\* case t := <-ticker.C, for what GetClock answers: an error, or a clock that
\* puts the market before its close ("closing"), closed or open; only the
\* default case starts run.
LiveTick ==
    /\ pc = "select"
    /\ live.ticks < MaxLiveTicks
    /\ \E clock \in {"error", "closing", "closed", "open"} :
          IF clock = "error"
          THEN /\ live' = [live EXCEPT !.ticks = @ + 1]
               /\ UNCHANGED <<purchases, trading>>
          ELSE /\ \E buys \in SUBSET Listed(inProgressBuyOrders(purchases)),
                    sells \in SUBSET Listed(inProgressSellOrders(purchases)) :
                     purchases' = LiveUpdateOrders(purchases, buys, sells)
               /\ trading' = (clock = "open")
               /\ live' = [live EXCEPT
                              !.ticks = @ + 1,
                              !.runs = IF clock = "open"
                                       THEN Append(@, [pc |-> "buy", todo |-> << >>,
                                                       order |-> NilPtr])
                                       ELSE @]
    /\ UNCHANGED <<idle, pc, db>>

\* case <-done: closeOutTrading() at the broker, then main returns and the
\* process, with every goroutine of it, ends.
LiveDone ==
    /\ pc = "select"
    /\ pc' = "exited"
    /\ UNCHANGED <<idle, purchases, trading, live, db>>

\* A run goroutine k: cancelOutdatedOrders() and buy(t).  buyEvent depends
\* on the broker's bars and PlaceOrder may fail.
LiveBuy ==
  \E k \in 1..Len(live.runs) :
    /\ pc = "select"
    /\ live.runs[k].pc = "buy"
    /\ \E event \in BOOLEAN, placed \in BOOLEAN :
          IF BelowCap(purchases, concurrentPurchases) /\ event /\ placed
          THEN /\ purchases' = Append(purchases, NewBuyPurchase(live.nextID, 0))
               /\ live' = [live EXCEPT !.runs[k].pc = "sell",
                                       !.nextID = @ + 1,
                                       !.sells = Append(@, 0)]
          ELSE /\ live' = [live EXCEPT !.runs[k].pc = "sell"]
               /\ UNCHANGED purchases
    /\ UNCHANGED <<idle, pc, trading, db>>

\* sell(): boughtNotSelling := c.boughtNotSelling()
LiveSell ==
  \E k \in 1..Len(live.runs) :
    /\ pc = "select"
    /\ live.runs[k].pc = "sell"
    /\ live' = [live EXCEPT !.runs[k].pc = "place",
                            !.runs[k].todo = boughtNotSelling(purchases)]
    /\ UNCHANGED <<idle, pc, purchases, trading, db>>

\* placeSellOrder(p) up to the return of c.alpacaClient.PlaceOrder(*req).
LivePlaceOrder ==
  \E k \in 1..Len(live.runs) :
    /\ pc = "select"
    /\ live.runs[k].pc = "place"
    /\ live.runs[k].todo # << >>
    /\ LET i         == Head(live.runs[k].todo)
           basePrice == BuyFilledAvgPriceFloat(purchases[i])
       IN  IF basePrice = 0
           THEN live' = [live EXCEPT !.runs[k].todo = Tail(@)]
           ELSE \E err \in BOOLEAN :
                   IF err
                   THEN live' = [live EXCEPT !.runs[k].todo = Tail(@)]
                   ELSE live' = [live EXCEPT
                                   !.runs[k].pc = "assign",
                                   !.runs[k].order =
                                       Ptr(NewSellOrder(live.nextID,
                                                        ProfitLimitPrice(basePrice),
                                                        StopPrice(basePrice),
                                                        LossLimitPrice(basePrice))),
                                   !.nextID = @ + 1,
                                   !.sells[i] = @ + 1]
    /\ UNCHANGED <<idle, pc, purchases, trading, db>>

\* p.SellOrder = sellOrder, and the update of the purchase's row.
LiveAssign ==
  \E k \in 1..Len(live.runs) :
    /\ pc = "select"
    /\ live.runs[k].pc = "assign"
    /\ purchases' = [purchases EXCEPT
                        ![Head(live.runs[k].todo)].SellOrder = live.runs[k].order]
    /\ live' = [live EXCEPT !.runs[k].pc = "place",
                            !.runs[k].todo = Tail(@),
                            !.runs[k].order = NilPtr]
    /\ UNCHANGED <<idle, pc, trading, db>>

\* sell() and run() return.
LiveRunEnd ==
  \E k \in 1..Len(live.runs) :
    /\ pc = "select"
    /\ live.runs[k].pc = "place"
    /\ live.runs[k].todo = << >>
    /\ live' = [live EXCEPT !.runs[k].pc = "done"]
    /\ UNCHANGED <<idle, pc, purchases, trading, db>>

LiveNext ==
    \/ LiveTick
    \/ LiveDone
    \/ LiveBuy
    \/ LiveSell
    \/ LivePlaceOrder
    \/ LiveAssign
    \/ LiveRunEnd

LiveSpec == LiveInit /\ [][LiveNext]_vars

---------------------------------------------------------------------------
(* package database: MySQLClient.Insert and MySQLClient.Update on one      *)
(* purchase.  db.rows is the table trader_one (row k has id k), db.p the   *)
(* purchase the client is handed, db.op and db.err the last call and what  *)
(* it returned ("" for nil), db.calls the number of calls made, and        *)
(* db.stored whether the purchase's row is known to be in the table.       *)

\* Calls made on the client.
MaxDbCalls == 4

\* Rows the table holds before the run.
MaxEarlierRows == 1

\* json.Marshal of an order pointer: "null" for nil, else the order's text.
Marshal(ptr) ==
    IF ptr = NilPtr THEN "null" ELSE <<"json", Deref(ptr).ID, Deref(ptr).Status>>

\* The column values Insert and Update bind for a purchase.
RowOf(p) == [buy_order |-> Marshal(p.BuyOrder), sell_order |-> Marshal(p.SellOrder)]

\* A purchase as placeBuyOrder builds it: ID 0, the broker's buy order.
DbNewPurchase(id) ==
    [ID |-> 0, BuyOrder |-> Ptr([ID |-> id, Status |-> "new"]), SellOrder |-> NilPtr]

\* Variants of the two ID checks that never reject.
InsertRejectsNever(p) == FALSE

UpdateRejectsNever(p) == FALSE

\* if p.ID != 0 { return error } of Insert, if p.ID == 0 { ... } of Update.
InsertRejects(p) == p.ID # 0

UpdateRejects(p) == p.ID = 0

\* The purchase is new, or Purchases() loaded it from the one earlier row.
DbInit ==
    /\ Idle(LoadFlags(14 * 3600 + 57 * 60))
    /\ purchases = << >>
    /\ pc = "db"
    /\ live = NoLive
    /\ \E n \in 0..MaxEarlierRows, loaded \in BOOLEAN :
          /\ loaded => n > 0
          /\ db = [ rows   |-> [k \in 1..n |-> RowOf(DbNewPurchase(k))],
                    p      |-> [DbNewPurchase(n + 1 - (IF loaded THEN 1 ELSE 0))
                                  EXCEPT !.ID = IF loaded THEN n ELSE 0],
                    op     |-> "none",
                    err    |-> "",
                    calls  |-> 0,
                    stored |-> loaded ]

\* Insert(p): the ID check, then prepare, exec and LastInsertId, each of
\* which may fail; the row is written by exec.
DbInsert ==
    /\ pc = "db"
    /\ db.calls < MaxDbCalls
    /\ \E fail \in {"none", "prepare", "exec", "id"} :
          db' = IF InsertRejects(db.p)
                THEN [db EXCEPT !.op = "Insert", !.calls = @ + 1,
                                !.err = "purchase cannot have a preexisting ID"]
                ELSE IF fail = "prepare"
                THEN [db EXCEPT !.op = "Insert", !.calls = @ + 1,
                                !.err = "unable to prepare SQL statement"]
                ELSE IF fail = "exec"
                THEN [db EXCEPT !.op = "Insert", !.calls = @ + 1,
                                !.err = "unable to insert row"]
                ELSE IF fail = "id"
                THEN [db EXCEPT !.op = "Insert", !.calls = @ + 1,
                                !.rows = Append(@, RowOf(db.p)),
                                !.err = "unable to find new ID"]
                ELSE [db EXCEPT !.op = "Insert", !.calls = @ + 1,
                                !.rows = Append(@, RowOf(db.p)),
                                !.p.ID = Len(db.rows) + 1,
                                !.stored = TRUE,
                                !.err = ""]
    /\ UNCHANGED <<idle, purchases, trading, pc, live>>

\* Update(p): the ID check, then prepare and exec; the statement changes the
\* row whose id is p.ID, if there is one.
DbUpdate ==
    /\ pc = "db"
    /\ db.calls < MaxDbCalls
    /\ \E fail \in {"none", "prepare", "exec"} :
          db' = IF UpdateRejects(db.p)
                THEN [db EXCEPT !.op = "Update", !.calls = @ + 1,
                                !.err = "purchase must have a preexisting ID"]
                ELSE IF fail = "prepare"
                THEN [db EXCEPT !.op = "Update", !.calls = @ + 1,
                                !.err = "unable to prepare SQL statement"]
                ELSE IF fail = "exec"
                THEN [db EXCEPT !.op = "Update", !.calls = @ + 1,
                                !.err = "unable to update row"]
                ELSE [db EXCEPT !.op = "Update", !.calls = @ + 1,
                                !.rows = IF db.p.ID \in 1..Len(db.rows)
                                         THEN [@ EXCEPT ![db.p.ID] = RowOf(db.p)]
                                         ELSE @,
                                !.err = ""]
    /\ UNCHANGED <<idle, purchases, trading, pc, live>>

\* Between the calls the trader changes the purchase's orders: updateOrders
\* stores a filled order, placeSellOrder stores the sell order.
DbOrderChange ==
    /\ pc = "db"
    /\ \/ /\ Deref(db.p.BuyOrder).Status = "new"
          /\ db' = [db EXCEPT !.op = "none",
                              !.p.BuyOrder = Ptr([Deref(@) EXCEPT !.Status = "filled"])]
       \/ /\ Deref(db.p.BuyOrder).Status = "filled"
          /\ db.p.SellOrder = NilPtr
          /\ db' = [db EXCEPT !.op = "none",
                              !.p.SellOrder =
                                  Ptr([ID |-> Deref(db.p.BuyOrder).ID + 10, Status |-> "new"])]
    /\ UNCHANGED <<idle, purchases, trading, pc, live>>

DbNext == DbInsert \/ DbUpdate \/ DbOrderChange

DbSpec == DbInit /\ [][DbNext]_vars

---------------------------------------------------------------------------
(* buy() on its own: the buy signal for every short sequence of closes     *)

\* The largest --num_historical_bars_to_use of the sequences.
MaxBars == 4

SlopeCloses == {0, 1, 2, 3, 5}

\* Values of --min_slope_required_to_buy.
SlopeThresholds == {0 - 1, 0, 1}

\* The minute of the tick in which buy() runs: 10:00 of a Monday.
SlopeTick == 10 * 3600

\* A bar whose close is c.
BarOf(c) == [High |-> c, Low |-> c, Close |-> c]

SlopeFlags(N, min) ==
    [LoadFlags(SlopeTick - N * 60) EXCEPT !.numHistoricalBarsToUse = N,
                                          !.minSlopeRequiredToBuy  = min]

\* The client when run() reaches buy() in the tick of SlopeTick, no order
\* placed so far, the N minutes before the tick holding the closes.
SlopeBegin(fl, closes) ==
    LET N == Len(closes)
    IN  /\ flags = fl
        /\ backtestHistory =
              HistoryOf(SlopeTick - N * 60, N + 1,
                        [k \in 1..(N + 1) |-> BarOf(closes[IF k > N THEN N ELSE k])])
        /\ backtestClock =
              ClockAfterUpdate(newFakeClock(SlopeTick, fl.durationBetweenAction))
        /\ concurrentPurchases = fl.maxConcurrentPurchases
        /\ purchases = << >>
        /\ backtestOrderID = 0
        /\ backtestStockHeldQty = 0
        /\ backtestCash = fl.backtestStartingCash
        /\ backtestCashStart = fl.backtestStartingCash
        /\ backtestCashStartOfDay = fl.backtestStartingCash
        /\ backtestSymbolStartOfDay = closes[1]
        /\ backtestSymbolEndOfDay = 0
        /\ trading = TRUE
        /\ pc = "buy"
        /\ todo = << >>
        /\ lastCall = NoCall
        /\ attempts = NoAttempts
        /\ loader = NoLoader
        /\ live = NoLive
        /\ db = NoDB

SlopeInit ==
    \E N \in 2..MaxBars, min \in SlopeThresholds :
       \E closes \in [1..N -> SlopeCloses] :
          SlopeBegin(SlopeFlags(N, min), closes)

SlopeNext == buy

SlopeSpec == SlopeInit /\ [][SlopeNext]_vars

---------------------------------------------------------------------------
(* historicalData(): loading the price series                              *)

\* The outer loop's limit: "infinite loop protection".
InfiniteLoopCap == 117000

\* The zero time.Time: lastValidTime before any record matched.
ZeroTime == 0 - 1

\* Longest file that is written out record by record.
MaxRecords == 3

\* The start time of the loads: Monday 09:28:00, two ticks before the open;
\* Monday 09:30:00; and Monday 09:30:30, which no tick of 60 s leaves again
\* on a full minute.
LoadStart == 9 * 3600 + 28 * 60

DailyStart == 9 * 3600 + 30 * 60

OffMinuteStart == 9 * 3600 + 30 * 60 + 30

\* The one-minute records per trading day of a generated file.
RecordsPerDay == 390

\* The numbers of trading days of the generated files.
DailyFileDays == {1, 2, 61}

\* A row of the file: its time (r[0]), the sample its high, low and close
\* fields (r[2], r[3], r[4]) spell, and whether one of them is not a decimal.
Rows ==
    { [t |-> LoadStart + 60 * k, sample |-> sm, bad |-> b] :
        k \in 1..4,
        sm \in {[High |-> 10000, Low |-> 9990, Close |-> 10000],
                [High |-> 10030, Low |-> 10000, Close |-> 10030]},
        b \in BOOLEAN }

\* The files: rows written out, or RecordsPerDay rows for each of a number
\* of consecutive trading days from a Monday, one per minute from first.
RowFiles ==
    { [kind |-> "rows", rows |-> rows] :
        rows \in UNION {[1..n -> Rows] : n \in 1..MaxRecords} }

DailyFiles ==
    { [kind |-> "daily", first |-> first, days |-> d] :
        first \in {DailyStart, OffMinuteStart}, d \in DailyFileDays }

\* len(records) and records[k] (k from 1).
NumRecords(recs) ==
    IF recs.kind = "rows" THEN Len(recs.rows) ELSE RecordsPerDay * recs.days

RecordAt(recs, k) ==
    IF recs.kind = "rows" THEN recs.rows[k]
    ELSE LET d == (k - 1) \div RecordsPerDay
             m == (k - 1) % RecordsPerDay
         IN  [ t      |-> recs.first + ((d \div 5) * 7 + (d % 5)) * Day + 60 * m,
               sample |-> [High |-> 10000, Low |-> 9990, Close |-> 10000],
               bad    |-> FALSE ]

\* h.epochToTickerData[k]: nil for a key the map does not have.
MapGet(data, k) == IF k \in DOMAIN data THEN data[k] ELSE NilPtr

\* h.epochToTickerData[k] = v
MapPut(data, k, v) == [x \in DOMAIN data \cup {k} |-> IF x = k THEN v ELSE data[x]]

\* The inner loop (for j := i; j < len(records); j++) at clock time now:
\* i, the series and the last valid time afterwards, err the error returned.
\* The series of a generated file is not followed: the loop does not read it.
RECURSIVE LoadRecords(_, _, _, _, _)
LoadRecords(recs, now, i, h, last) ==
    IF ~(i < NumRecords(recs))
    THEN [i |-> i, h |-> h, last |-> last, err |-> ""]
    ELSE
    LET r == RecordAt(recs, i + 1)
    IN  IF now > r.t
        THEN LoadRecords(recs, now, i + 1, h, last)
        ELSE IF now < r.t
        THEN [ i    |-> i + 1,
               h    |-> IF recs.kind = "rows"
                        THEN [h EXCEPT !.epochToTickerData =
                                 MapPut(@, now, MapGet(@, last))]
                        ELSE h,
               last |-> last,
               err  |-> "" ]
        ELSE IF r.bad
        THEN [i |-> i, h |-> h, last |-> last, err |-> "unable to convert"]
        ELSE [ i    |-> i + 1,
               h    |-> [h EXCEPT
                           !.epochToTickerData =
                               IF recs.kind = "rows" THEN MapPut(@, r.t, Ptr(r.sample))
                               ELSE @,
                           !.symbolStartPrice =
                               IF @ = 0 THEN r.sample.Close ELSE @,
                           !.symbolEndPrice = r.sample.Close],
               last |-> r.t,
               err  |-> "" ]

\* newHistory()
newHistory ==
    [ epochToTickerData |-> << >>, endTime |-> ZeroTime,
      symbolStartPrice |-> 0, symbolEndPrice |-> 0 ]

\* historicalData() up to its loop, for the file recs and the start time.
LoadBegin(recs, start) ==
    /\ flags = LoadFlags(start)
    /\ backtestHistory = newHistory
    /\ backtestClock = newFakeClock(start, StepSeconds)
    /\ loader = [ records |-> recs, i |-> 0, infiniteLoopProtection |-> 0,
                  lastValidTime |-> ZeroTime, err |-> "" ]
    /\ live = NoLive
    /\ db = NoDB
    /\ concurrentPurchases = 1
    /\ purchases = << >>
    /\ backtestOrderID = 0
    /\ backtestStockHeldQty = 0
    /\ backtestCash = StartingCash
    /\ backtestCashStart = StartingCash
    /\ backtestCashStartOfDay = StartingCash
    /\ backtestSymbolStartOfDay = 0
    /\ backtestSymbolEndOfDay = 0
    /\ trading = FALSE
    /\ pc = "load"
    /\ todo = << >>
    /\ lastCall = NoCall
    /\ attempts = NoAttempts

LoadInit ==
    \/ \E recs \in RowFiles : LoadBegin(recs, LoadStart)
    \/ \E recs \in DailyFiles : LoadBegin(recs, recs.first)

rest == <<flags, purchases, concurrentPurchases, backtestOrderID,
          backtestStockHeldQty, backtestCash, backtestCashStart,
          backtestCashStartOfDay, symbol, todo, lastCall, attempts, live, db>>

LoopRuns == pc = "load" /\ loader.i < NumRecords(loader.records)

\* A variant of CapExceeded for a loop without the protection.
CapNeverExceeded(n) == FALSE

\* if infiniteLoopProtection > 117000
CapExceeded(n) == n > InfiniteLoopCap

\* infiniteLoopProtection++ takes the counter over the limit: the error.
LoadCapExceeded ==
    /\ LoopRuns
    /\ CapExceeded(loader.infiniteLoopProtection + 1)
    /\ loader' = [loader EXCEPT !.infiniteLoopProtection = @ + 1,
                                !.err = "infinite loop protection"]
    /\ pc' = "loadError"
    /\ UNCHANGED <<backtestClock, backtestHistory, rest>>

\* An iteration in which the clock reports the market closed.
LoadClosedTick ==
    /\ LoopRuns
    /\ ~(CapExceeded(loader.infiniteLoopProtection + 1))
    /\ backtestClock' = ClockAfterUpdate(backtestClock)
    /\ ~backtestClock'.IsOpen
    /\ loader' = [loader EXCEPT !.infiniteLoopProtection = @ + 1]
    /\ UNCHANGED <<backtestHistory, pc, rest>>

\* An iteration in which the clock reports the market open: the inner loop.
LoadOpenTick ==
    /\ LoopRuns
    /\ ~(CapExceeded(loader.infiniteLoopProtection + 1))
    /\ backtestClock' = ClockAfterUpdate(backtestClock)
    /\ backtestClock'.IsOpen
    /\ LET r == LoadRecords(loader.records, backtestClock'.Now, loader.i,
                            backtestHistory, loader.lastValidTime)
       IN  /\ loader' = [loader EXCEPT !.infiniteLoopProtection = @ + 1,
                                       !.i = r.i, !.lastValidTime = r.last,
                                       !.err = r.err]
           /\ backtestHistory' = r.h
           /\ pc' = IF r.err = "" THEN "load" ELSE "loadError"
    /\ UNCHANGED rest

\* The loop ends: h.endTime = lastValidTime; return h, nil.
LoadReturn ==
    /\ pc = "load"
    /\ ~(loader.i < NumRecords(loader.records))
    /\ backtestHistory' = [backtestHistory EXCEPT !.endTime = loader.lastValidTime]
    /\ pc' = "loaded"
    /\ UNCHANGED <<backtestClock, loader, rest>>

LoadNext == LoadCapExceeded \/ LoadClosedTick \/ LoadOpenTick \/ LoadReturn

LoadSpec == LoadInit /\ [][LoadNext]_vars

\* historicalData() runs on: the loop is a sequential program.
LoadFairSpec == LoadSpec /\ WF_vars(LoadNext)

---------------------------------------------------------------------------
(* fakeSellAttempt on sell orders with any of their prices unset           *)

\* The average fill prices of the buy the sell order stands for.
AttemptBasePrices == {10000, 10030}

\* Which prices of the sell order are set: the take-profit limit price, the
\* legs, and the leg's stop price and limit price.
AttemptShapes ==
    [limit : BOOLEAN, legs : BOOLEAN, stop : BOOLEAN, lossLimit : BOOLEAN]

\* The sell order of that shape: the bracket of placeSellOrder around
\* basePrice with the prices that are not set left nil.
AttemptOrder(basePrice, shape) ==
    [NewSellOrder(2, ProfitLimitPrice(basePrice), StopPrice(basePrice),
                  LossLimitPrice(basePrice))
       EXCEPT !.LimitPrice = IF shape.limit THEN @ ELSE NilPtr,
              !.Legs = IF shape.legs
                       THEN Ptr([ StopPrice  |-> IF shape.stop
                                                 THEN Deref(@).StopPrice ELSE NilPtr,
                                  LimitPrice |-> IF shape.lossLimit
                                                 THEN Deref(@).LimitPrice ELSE NilPtr ])
                       ELSE NilPtr]

\* updateOrders is about to call fakeOrder for the sell order of the only
\* purchase, bought at basePrice, in the minute of sample h.
AttemptBegin(fl, basePrice, shape, h) ==
    /\ flags = fl
    /\ backtestHistory = HistoryOf(fl.backtestStartTime, 1, <<h>>)
    /\ backtestClock =
         ClockAfterUpdate(newFakeClock(fl.backtestStartTime, fl.durationBetweenAction))
    /\ concurrentPurchases = fl.maxConcurrentPurchases
    /\ purchases =
         << [ BuyOrder  |-> Ptr([Deref(NewBuyPurchase(1, fl.backtestStartTime).BuyOrder)
                                   EXCEPT !.Status = "filled", !.FilledQty = fl.purchaseQty,
                                          !.FilledAvgPrice = Ptr(basePrice)]),
              SellOrder |-> Ptr(AttemptOrder(basePrice, shape)) ] >>
    /\ backtestOrderID = 2
    /\ backtestStockHeldQty = fl.purchaseQty
    /\ backtestCash = fl.backtestStartingCash - basePrice * fl.purchaseQty
    /\ backtestCashStart = fl.backtestStartingCash
    /\ backtestCashStartOfDay = fl.backtestStartingCash
    /\ backtestSymbolStartOfDay = h.Close
    /\ backtestSymbolEndOfDay = 0
    /\ trading = TRUE
    /\ pc = "sellOrders"
    /\ todo = <<1>>
    /\ lastCall = NoCall
    /\ attempts = NoAttempts
    /\ loader = NoLoader
    /\ live = NoLive
    /\ db = NoDB

AttemptInit ==
    \E basePrice \in AttemptBasePrices, h \in Samples, shape \in AttemptShapes :
       AttemptBegin(LoadFlags(14 * 3600 + 57 * 60), basePrice, shape, h)

AttemptNext == UpdateSellOrder

AttemptSpec == AttemptInit /\ [][AttemptNext]_vars

---------------------------------------------------------------------------
(* Properties.  Helpers first.                                             *)

\* Purchase i's order in a slot.
BuyOf(ps, i) == Deref(ps[i].BuyOrder)

SellOf(ps, i) == Deref(ps[i].SellOrder)

\* The step is one c.order call of updateOrders on a buy (a sell) order in
\* which randomFillOrder answered gate and the sample lookup did not panic.
BuyAttemptStep(gate) ==
    /\ pc = "buyOrders" /\ todo # << >> /\ pc' = "buyOrders"
    /\ BuyOf(purchases, Head(todo)).Status = "new"
    /\ lastCall'.gate = gate

SellAttemptStep(gate) ==
    /\ pc = "sellOrders" /\ todo # << >> /\ pc' = "sellOrders"
    /\ SellOf(purchases, Head(todo)).Status = "new"
    /\ lastCall'.gate = gate

\* The current sample's close in bracket units.
CloseNow == Deref(CurrentPricePtr).Close * PriceScale

\* The purchases whose buy order is placed (pending or filled) and whose
\* sell order is not filled.
BoughtUnsold(ps) ==
    {i \in 1..Len(ps) : BuyOf(ps, i).Status \in {"new", "filled"} /\ ~SellFilled(ps[i])}

\* C1: in a backtest run the number of purchases whose buy order is placed
\* (pending or filled) and whose sell order is not filled never exceeds
\* maxConcurrentPurchases.
C1_CapRespected == Cardinality(BoughtUnsold(purchases)) <= concurrentPurchases

\* C2: when the fill gate accepts a sell attempt, a close at or above the
\* take-profit limit fills the order at the sample's low, and a close
\* strictly between the stop price and the limit leaves the order "new" and
\* cash and shares held unchanged.
C2_SellResolution ==
    [][SellAttemptStep(TRUE) =>
         LET i  == Head(todo)
             o  == SellOf(purchases, i)
             o2 == SellOf(purchases', i)
             h  == Deref(CurrentPricePtr)
         IN  /\ CloseNow >= Deref(o.LimitPrice) =>
                   /\ o2.Status = "filled"
                   /\ o2.FilledAvgPrice = Ptr(h.Low)
             /\ (CloseNow > Deref(Deref(o.Legs).StopPrice)
                   /\ CloseNow < Deref(o.LimitPrice)) =>
                   /\ o2.Status = "new"
                   /\ backtestCash' = backtestCash
                   /\ backtestStockHeldQty' = backtestStockHeldQty]_vars

\* C2 witness: an accepted sell attempt has just filled an order at the low of
\* a sample whose close reached the take-profit limit.
C2_Witness ==
    /\ pc = "sellOrders"
    /\ lastCall.op = "fakeSellAttempt" /\ lastCall.gate
    /\ \E i \in 1..Len(purchases) :
          /\ purchases[i].SellOrder # NilPtr
          /\ SellOf(purchases, i).ID = lastCall.id
          /\ SellOf(purchases, i).Status = "filled"
          /\ CloseNow >= Deref(SellOf(purchases, i).LimitPrice)
          /\ SellOf(purchases, i).FilledAvgPrice = Ptr(Deref(CurrentPricePtr).Low)
          /\ Deref(CurrentPricePtr).Low < Deref(CurrentPricePtr).Close

\* The other case of C2 is reached too: an accepted attempt at a close
\* strictly between stop and limit left the order "new".
C2_BetweenReached ==
    /\ pc = "sellOrders"
    /\ lastCall.op = "fakeSellAttempt" /\ lastCall.gate
    /\ \E i \in 1..Len(purchases) :
          /\ purchases[i].SellOrder # NilPtr
          /\ SellOf(purchases, i).ID = lastCall.id
          /\ SellOf(purchases, i).Status = "new"
          /\ CloseNow > Deref(Deref(SellOf(purchases, i).Legs).StopPrice)
          /\ CloseNow < Deref(SellOf(purchases, i).LimitPrice)

\* The sell order of purchase i is filled by the step at the current low, and
\* the ledger is credited with low * qty.
SellFilledAtLow(i) ==
    LET o  == SellOf(purchases, i)
        o2 == SellOf(purchases', i)
        h  == Deref(CurrentPricePtr)
    IN  /\ o2.Status = "filled"
        /\ o2.FilledQty = o.Qty
        /\ o2.FilledAvgPrice = Ptr(h.Low)
        /\ backtestCash' = backtestCash + h.Low * o.Qty
        /\ backtestStockHeldQty' = backtestStockHeldQty - o.Qty

\* C3 as stated: when the gate accepts and the close is below the take-profit
\* limit and at or below the stop price, the sell order fills at the low, for
\* every such close.
C3_StopFillsEveryClose ==
    [][SellAttemptStep(TRUE) =>
         LET o == SellOf(purchases, Head(todo))
         IN  (CloseNow < Deref(o.LimitPrice)
                /\ CloseNow <= Deref(Deref(o.Legs).StopPrice))
             => SellFilledAtLow(Head(todo))]_vars

\* C3 amended: the order fills at the low when the close is at or below the
\* stop price and above the stop-loss leg's own limit price; a close at or
\* below that limit price leaves the order "new" and the ledger unchanged.
C3_StopFillsAboveLossLimit ==
    [][SellAttemptStep(TRUE) =>
         LET o   == SellOf(purchases, Head(todo))
             leg == Deref(o.Legs)
         IN  /\ (CloseNow < Deref(o.LimitPrice)
                   /\ CloseNow <= Deref(leg.StopPrice)
                   /\ CloseNow > Deref(leg.LimitPrice))
                => SellFilledAtLow(Head(todo))
             /\ (CloseNow < Deref(o.LimitPrice)
                   /\ CloseNow <= Deref(leg.LimitPrice))
                => /\ SellOf(purchases', Head(todo)) = o
                   /\ backtestCash' = backtestCash
                   /\ backtestStockHeldQty' = backtestStockHeldQty]_vars

\* C3 witness: an accepted attempt has just filled a sell order at the low of
\* a sample whose close lies between the leg's limit price and its stop price.
C3_Witness ==
    /\ pc = "sellOrders"
    /\ lastCall.op = "fakeSellAttempt" /\ lastCall.gate
    /\ \E i \in 1..Len(purchases) :
          /\ purchases[i].SellOrder # NilPtr
          /\ SellOf(purchases, i).ID = lastCall.id
          /\ SellOf(purchases, i).Status = "filled"
          /\ CloseNow <= Deref(Deref(SellOf(purchases, i).Legs).StopPrice)
          /\ CloseNow > Deref(Deref(SellOf(purchases, i).Legs).LimitPrice)
          /\ backtestCash = lastCall.cash + Deref(CurrentPricePtr).Low * flags.purchaseQty
          /\ backtestStockHeldQty = lastCall.held - flags.purchaseQty

\* C4: an accepted buy attempt turns the pending order into a filled one with
\* FilledQty = Qty and FilledAvgPrice = the sample's high; cash falls by
\* high * Qty and shares held rise by Qty.
C4_BuyFill ==
    [][BuyAttemptStep(TRUE) =>
         LET i  == Head(todo)
             o  == BuyOf(purchases, i)
             o2 == BuyOf(purchases', i)
             h  == Deref(CurrentPricePtr)
         IN  /\ o2 = [o EXCEPT !.Status = "filled", !.FilledQty = o.Qty,
                               !.FilledAvgPrice = Ptr(h.High)]
             /\ backtestCash' = backtestCash - h.High * o.Qty
             /\ backtestStockHeldQty' = backtestStockHeldQty + o.Qty]_vars

\* C4 witness: a buy order has just been filled at a high above the low.
C4_Witness ==
    /\ pc = "buyOrders"
    /\ lastCall.op = "fakeBuyAttempt" /\ lastCall.gate
    /\ \E i \in 1..Len(purchases) :
          /\ BuyOf(purchases, i).ID = lastCall.id
          /\ BuyOf(purchases, i).Status = "filled"
          /\ BuyOf(purchases, i).FilledAvgPrice = Ptr(Deref(CurrentPricePtr).High)
          /\ Deref(CurrentPricePtr).High > Deref(CurrentPricePtr).Low
          /\ backtestCash = lastCall.cash - Deref(CurrentPricePtr).High * flags.purchaseQty
          /\ backtestStockHeldQty = lastCall.held + flags.purchaseQty

\* A rejected attempt leaves the order "new" with its fill fields unset and
\* leaves cash and shares held as they were.
RejectedFrame ==
    /\ BuyAttemptStep(FALSE) =>
          LET o2 == BuyOf(purchases', Head(todo))
          IN  /\ o2 = BuyOf(purchases, Head(todo))
              /\ o2.Status = "new" /\ o2.FilledQty = 0 /\ o2.FilledAvgPrice = NilPtr
              /\ backtestCash' = backtestCash
              /\ backtestStockHeldQty' = backtestStockHeldQty
    /\ SellAttemptStep(FALSE) =>
          LET o2 == SellOf(purchases', Head(todo))
          IN  /\ o2 = SellOf(purchases, Head(todo))
              /\ o2.Status = "new" /\ o2.FilledQty = 0 /\ o2.FilledAvgPrice = NilPtr
              /\ backtestCash' = backtestCash
              /\ backtestStockHeldQty' = backtestStockHeldQty

\* The ids of the orders in a purchase list.
OrderIDs(ps) ==
    {BuyOf(ps, i).ID : i \in 1..Len(ps)}
    \cup {SellOf(ps, i).ID : i \in {j \in 1..Len(ps) : ps[j].SellOrder # NilPtr}}

\* The ids of the orders of a purchase list that are pending.
PendingIDs(ps) ==
    {BuyOf(ps, i).ID : i \in {j \in 1..Len(ps) : BuyOf(ps, j).Status = "new"}}
    \cup {SellOf(ps, i).ID :
            i \in {j \in 1..Len(ps) :
                     ps[j].SellOrder # NilPtr /\ SellOf(ps, j).Status = "new"}}

\* C5 as stated: a rejected attempt leaves the order "new" with its fill
\* fields unset and cash and shares held unchanged, and the order is attempted
\* again on the next tick: it is still pending when its tick ends, and when
\* the next tick's updateOrders has returned it has been attempted again.
C5_RejectedRetriedNextTick ==
    /\ [][RejectedFrame]_vars
    /\ [](pc = "loop" => attempts.rejected \subseteq PendingIDs(purchases))
    /\ [](pc = "switch" => attempts.owed = {})

\* C5 amended: a rejected attempt leaves the order "new" with its fill fields
\* unset and cash and shares held unchanged; unless the end-of-day close-out
\* of the same tick empties the purchase list, the order is still pending
\* when its tick ends, and the next tick's updateOrders attempts it again.
C5_RejectedRetriedUnlessClosedOut ==
    /\ [][RejectedFrame]_vars
    /\ [][pc # "closeOut" => OrderIDs(purchases) \subseteq OrderIDs(purchases')]_vars
    /\ [](pc = "loop" /\ lastCall.op # "jump"
            => attempts.rejected \subseteq PendingIDs(purchases))
    /\ [](pc = "switch" => attempts.owed \cap OrderIDs(purchases) = {})

\* C5 witness: a buy order rejected in the tick before has just been attempted
\* again and rejected again; it is still "new" and the ledger did not move.
C5_Witness ==
    /\ pc = "buyOrders"
    /\ lastCall.op = "fakeBuyAttempt" /\ ~lastCall.gate
    /\ lastCall.id \in attempts.rejected /\ lastCall.id \notin attempts.owed
    /\ \E i \in 1..Len(purchases) :
          /\ BuyOf(purchases, i).ID = lastCall.id
          /\ BuyOf(purchases, i).Status = "new"
          /\ BuyOf(purchases, i).FilledAvgPrice = NilPtr
          /\ BuyOf(purchases, i).CreatedAt + 2 * flags.durationBetweenAction
                <= backtestClock.Now
    /\ backtestCash = lastCall.cash
    /\ backtestStockHeldQty = lastCall.held

\* C6: cash is never negative in a backtest run that starts with
\* non-negative cash.
C6_CashNeverNegative == backtestCash >= 0

\* C7: shares held are never negative.
C7_SharesNeverNegative == backtestStockHeldQty >= 0

\* C7 witness: a sell fill has just taken the last shares off the ledger.
C7_Witness ==
    /\ pc = "sellOrders"
    /\ lastCall.op = "fakeSellAttempt" /\ lastCall.gate
    /\ lastCall.held = flags.purchaseQty
    /\ backtestStockHeldQty = 0
    /\ \E i \in 1..Len(purchases) :
          SellFilled(purchases[i]) /\ SellOf(purchases, i).ID = lastCall.id

\* What the filled orders of a side paid or received: price * quantity each.
FilledValue(ps, side) ==
    LET filled == IF side = "buy" THEN {i \in 1..Len(ps) : BuyFilled(ps[i])}
                  ELSE {i \in 1..Len(ps) : SellFilled(ps[i])}
        o(i)   == IF side = "buy" THEN BuyOf(ps, i) ELSE SellOf(ps, i)
        idx    == [k \in 1..Len(ps) |->
                     IF k \in filled THEN Deref(o(k).FilledAvgPrice) * o(k).FilledQty
                     ELSE 0]
    IN  Sum(idx)

\* C8: the ledger is exact: cash is the day's starting cash minus
\* price * quantity of every buy fill plus price * quantity of every sell
\* fill, and shares held are the quantities bought and not sold; so a buy
\* fill and a sell fill of the same quantity at the same price cancel.
C8_LedgerExact ==
    /\ backtestCash = backtestCashStartOfDay - FilledValue(purchases, "buy")
                        + FilledValue(purchases, "sell")
    /\ backtestStockHeldQty =
          Sum([k \in 1..Len(purchases) |->
                 (IF BuyFilled(purchases[k]) THEN BuyOf(purchases, k).FilledQty ELSE 0)
                 - (IF SellFilled(purchases[k]) THEN SellOf(purchases, k).FilledQty ELSE 0)])

\* C8 witness: the only purchase was bought and has just been sold at the
\* price it was bought at; cash and shares are back at their values before
\* the buy.
C8_Witness ==
    /\ pc = "sellOrders"
    /\ lastCall.op = "fakeSellAttempt" /\ lastCall.gate
    /\ Len(purchases) = 1
    /\ BuyFilled(purchases[1]) /\ SellFilled(purchases[1])
    /\ SellOf(purchases, 1).FilledAvgPrice = BuyOf(purchases, 1).FilledAvgPrice
    /\ SellOf(purchases, 1).FilledQty = BuyOf(purchases, 1).FilledQty
    /\ backtestCash = backtestCashStartOfDay
    /\ backtestStockHeldQty = 0

\* C9: the close-out adds low * shares held of the current sample to cash,
\* sets shares held to 0, empties the purchase list and resets the order-id
\* counter to 0; with the list empty, the discarded orders move cash no more.
C9_CloseOut ==
    [][/\ (pc = "closeOut" /\ pc' = "jump") =>
             /\ backtestCash' = backtestCash
                                  + Deref(CurrentPricePtr).Low * backtestStockHeldQty
             /\ backtestStockHeldQty' = 0
             /\ purchases' = << >>
             /\ backtestOrderID' = 0
       /\ (purchases = << >> /\ pc # "closeOut") =>
             /\ backtestCash' = backtestCash
             /\ backtestStockHeldQty' = backtestStockHeldQty]_vars

\* C9 witness: the close-out has just sold shares at a low below the high and
\* discarded a pending order.
C9_Witness ==
    /\ pc = "jump"
    /\ lastCall.op = "fakeCloseOutTrading"
    /\ lastCall.held > 0 /\ lastCall.pending > 0 /\ lastCall.id > 0
    /\ Deref(CurrentPricePtr).Low < Deref(CurrentPricePtr).High
    /\ backtestCash = lastCall.cash + Deref(CurrentPricePtr).Low * lastCall.held
    /\ backtestStockHeldQty = 0
    /\ purchases = << >>
    /\ backtestOrderID = 0

\* C10: whenever the clock's Now falls on a Saturday or a Sunday, IsOpen is
\* false.
C10_ClosedOnWeekend == Weekday(backtestClock.Now) \in {0, 6} => ~backtestClock.IsOpen

\* The calendar day (its midnight) of a time.
DayOf(t) == t - (t % Day)

\* C11: TodaysOpenTime <= TodaysCloseTime always, and once the clock has
\* ticked past the midnight that begins a trading day, TodaysOpenTime and
\* TodaysCloseTime are 09:30 and 16:00 of that day.
C11_BoundariesOfToday ==
    /\ backtestClock.TodaysOpenTime <= backtestClock.TodaysCloseTime
    /\ (/\ lastCall.op = "updateFakeClock"
        /\ Weekday(backtestClock.Now) \in 1..5
        /\ DayOf(backtestClock.Now) > DayOf(flags.backtestStartTime))
       => /\ backtestClock.TodaysOpenTime = DateOfDay(backtestClock.Now, 9, 30)
          /\ backtestClock.TodaysCloseTime = DateOfDay(backtestClock.Now, 16, 0)

\* The minute-aligned times from start to end at which the market is open.
MarketMinutes(start, end) ==
    { t \in {start + 60 * k : k \in 0..((end - start) \div 60)} :
        /\ Weekday(t) \in 1..5
        /\ t >= DateOfDay(t, 9, 30)
        /\ t <= DateOfDay(t, 16, 0) }

\* The load of a written-out file has returned its series.
RowsLoaded == pc = "loaded" /\ loader.records.kind = "rows"

\* C12: after historicalData returns successfully, every market minute from
\* the start time to the series' endTime has an entry in epochToTickerData
\* that holds a sample (is not nil).
C12_NoGaps ==
    RowsLoaded =>
       \A t \in MarketMinutes(flags.backtestStartTime, backtestHistory.endTime) :
          /\ t \in DOMAIN backtestHistory.epochToTickerData
          /\ backtestHistory.epochToTickerData[t] # NilPtr

\* The rows of a file are in strictly increasing order of time.
TimeOrdered(rows) == \A k \in 1..(Len(rows) - 1) : rows[k].t < rows[k + 1].t

\* C13: after a successful load of a time-ordered file, every record whose
\* time is a market minute at or after the start time is in the series under
\* its own time with its own high, low and close.
C13_RecordsKept ==
    (RowsLoaded /\ TimeOrdered(loader.records.rows)) =>
       \A k \in 1..Len(loader.records.rows) :
          LET r == loader.records.rows[k]
          IN  (~r.bad /\ r.t \in MarketMinutes(flags.backtestStartTime, r.t)) =>
                 /\ r.t \in DOMAIN backtestHistory.epochToTickerData
                 /\ backtestHistory.epochToTickerData[r.t] = Ptr(r.sample)

\* C14: historicalData always terminates: it returns a series once all
\* records are consumed, or it returns an error, and its loop counter never
\* passes the limit by more than the one increment that is answered with
\* the "infinite loop protection" error.
C14_LoadTerminates ==
    /\ [](loader.infiniteLoopProtection <= InfiniteLoopCap + 1)
    /\ [](loader.infiniteLoopProtection = InfiniteLoopCap + 1
            => pc = "loadError" /\ loader.err = "infinite loop protection")
    /\ [](pc = "loaded" => loader.i = NumRecords(loader.records) /\ loader.err = "")
    /\ <>(pc \in {"loaded", "loadError"})

\* C14 witness: the clock never reported the market open again, records were
\* left, and the load has ended with the protection's error.
C14_Witness ==
    /\ pc = "loadError"
    /\ loader.err = "infinite loop protection"
    /\ loader.infiniteLoopProtection = InfiniteLoopCap + 1
    /\ loader.i < NumRecords(loader.records)
    /\ ~backtestClock.IsOpen
    /\ DayOf(backtestClock.TodaysOpenTime) = DayOf(flags.backtestStartTime)

\* A generated file is well formed for the start time: minute-aligned,
\* time-ordered, RecordsPerDay rows a trading day from the start time on, and
\* no more rows than the limit counts.
WellFormedFile ==
    /\ loader.records.kind = "daily"
    /\ loader.records.first = flags.backtestStartTime
    /\ Second(loader.records.first) = 0
    /\ NumRecords(loader.records) <= InfiniteLoopCap

\* C15: the load of a well-formed file of up to 117000 one-minute records
\* does not end with the "infinite loop protection" error.
C15_YearOfBarsLoads ==
    WellFormedFile => ~(pc = "loadError" /\ loader.err = "infinite loop protection")

\* C16: when a row of the file has a high, low or close field that is not
\* a decimal, historicalData does not return a series.
C16_BadFieldFailsLoad ==
    (/\ loader.records.kind = "rows"
     /\ \E k \in 1..Len(loader.records.rows) : loader.records.rows[k].bad)
    => pc # "loaded"

\* A price of the sell order of purchase i is unset.
PricesUnset(o) ==
    \/ o.LimitPrice = NilPtr
    \/ o.Legs = NilPtr
    \/ Deref(o.Legs).StopPrice = NilPtr
    \/ Deref(o.Legs).LimitPrice = NilPtr

CycleEnd == pc = "loop" /\ lastCall.op = "sell"

\* Purchase p has a sell order that is pending or filled.
SellPendingOrFilled(p) ==
    p.SellOrder # NilPtr /\ Deref(p.SellOrder).Status \in {"new", "filled"}

\* C18 (as stated): at the end of every run() cycle every purchase whose buy
\* order is filled has a sell order that is pending or filled, whatever the
\* price the buy was filled at.
C18_FilledBuyHasSell ==
    CycleEnd => \A i \in 1..Len(purchases) :
                   BuyFilled(purchases[i]) => SellPendingOrFilled(purchases[i])

\* C18 (amended): at the end of every run() cycle every purchase whose buy
\* order is filled at a price other than zero has a sell order that is pending
\* or filled; a purchase whose buy was filled at price zero has no sell order.
C18_NonZeroFilledBuyHasSell ==
    CycleEnd => \A i \in 1..Len(purchases) :
                   BuyFilled(purchases[i]) =>
                      IF BuyFilledAvgPriceFloat(purchases[i]) = 0
                      THEN purchases[i].SellOrder = NilPtr
                      ELSE SellPendingOrFilled(purchases[i])

\* A cycle ends in which sell() placed the sell order of a purchase whose
\* buy order was found filled, at a price above zero, earlier in the tick.
C18_Witness ==
    /\ CycleEnd
    /\ \E i \in 1..Len(purchases) :
          /\ BuyFilled(purchases[i])
          /\ BuyFilledAvgPriceFloat(purchases[i]) > 0
          /\ SellHasStatus(purchases[i], "new")
          /\ SellOf(purchases, i).ID = backtestOrderID
    /\ PendingOrders(purchases) > lastCall.pending

\* The step is a buy() that places a buy order.
BuyPlaced == pc = "buy" /\ Len(purchases') > Len(purchases)

\* C20: buy() places a buy order only when the current tick has a sample and
\* cash >= 1.2 * purchaseQty * (that sample's high).
C20_BuyNeedsCashForHigh ==
    [][BuyPlaced =>
         /\ CurrentPricePtr # NilPtr
         /\ backtestCash * 10 >= 12 * flags.purchaseQty * Deref(CurrentPricePtr).High]_vars

\* C19: buy() of a client that has the cash and is below its cap places a
\* buy order exactly when the least-squares slope of the closes against
\* their index 0..N-1 is at least minSlopeRequiredToBuy, that is when
\* numerator >= threshold * denominator (the denominator is positive).
C19_SignalIffSlope ==
    [][(/\ pc = "buy"
        /\ BelowCap(purchases, concurrentPurchases)
        /\ Len(fakeGetSymbolBars) >= 2
        /\ EnoughCash(backtestCash, fakeGetSymbolBars)
        /\ ~flags.allSequentialIncreasesToBuy)
       => (BuyPlaced <=>
             SlopeNumerator(fakeGetSymbolBars)
                >= flags.minSlopeRequiredToBuy * SlopeDenominator(fakeGetSymbolBars))]_vars

\* One of the N minutes before the current one has no sample in the series.
SamplesMissing ==
    \E k \in 1..flags.numHistoricalBarsToUse :
       timeToMinuteStart(backtestClock.Now) - k * 60
          \notin DOMAIN backtestHistory.epochToTickerData

\* The tick is one of the first N minutes of the session.
SessionJustOpened ==
    /\ backtestClock.Now >= backtestClock.TodaysOpenTime
    /\ backtestClock.Now < backtestClock.TodaysOpenTime + flags.numHistoricalBarsToUse * 60

\* C21: when one of the N samples before the current minute is missing, and
\* in particular in the first N minutes of a session, buy() places no buy
\* order, enters no error state and the cycle goes on to sell().
C21_FailsClosedOnShortHistory ==
    [][(pc = "buy" /\ (SamplesMissing \/ SessionJustOpened))
       => /\ purchases' = purchases
          /\ backtestOrderID' = backtestOrderID
          /\ pc' = "sell"]_vars

\* buy() has just declined, with room under the cap and cash at hand, in a
\* tick of an open market for which a preceding sample is missing.
C21_Witness ==
    /\ pc = "sell"
    /\ lastCall.op = "buy"
    /\ SamplesMissing
    /\ SessionJustOpened
    /\ backtestClock.IsOpen
    /\ BelowCap(purchases, concurrentPurchases)
    /\ backtestCash = flags.backtestStartingCash

\* The run is over: the loop was left, or a lookup panicked.
RunOver == pc \in {"done", "panic"}

\* C22: the driver loop terminates for every step duration: Now never goes
\* back, every iteration that passes the loop check advances it, the loop is
\* left at a loop check exactly when Now is after the series' endTime, and
\* every run comes to its end.
C22_LoopTerminates ==
    /\ [][backtestClock'.Now >= backtestClock.Now]_vars
    /\ [][(pc = "loop" /\ pc' = "updateOrders")
             => backtestClock'.Now > backtestClock.Now]_vars
    /\ [][pc = "loop" => (pc' = "done" <=> backtestClock.Now > backtestHistory.endTime)]_vars
    /\ <>RunOver

\* The loop has been left after an iteration at a step other than a minute.
C22_Witness ==
    /\ pc = "done"
    /\ flags.durationBetweenAction # StepSeconds
    /\ backtestClock.Now > backtestHistory.endTime
    /\ backtestClock.Now <= backtestHistory.endTime + flags.durationBetweenAction

\* The sequence seq lists every element of the set S once and nothing else.
ListsOnce(seq, S) ==
    Len(seq) = Cardinality(S) /\ {seq[k] : k \in 1..Len(seq)} = S

\* The step is a fill attempt that did not panic, on the pending order of
\* the given side of the purchase at the head of todo.
AttemptOnHead(side) ==
    /\ todo' = Tail(todo)
    /\ lastCall'.op = (IF side = "buy" THEN "fakeBuyAttempt" ELSE "fakeSellAttempt")
    /\ lastCall'.id = (IF side = "buy" THEN BuyOf(purchases, Head(todo)).ID
                       ELSE SellOf(purchases, Head(todo)).ID)
    /\ (IF side = "buy" THEN BuyOf(purchases, Head(todo)).Status
        ELSE SellOf(purchases, Head(todo)).Status) = "new"

\* C23: an iteration is one cycle in this order: the clock advances; every
\* pending buy order, then every pending sell order, gets exactly one fill
\* attempt; the buy decision and then sell placement follow only when the
\* market is open and the pre-close window has not begun. Fill attempts
\* happen nowhere else, so an order placed in a tick is first attempted in
\* the next tick, and a buy order is never attempted in the tick of its
\* creation.
C23_OneCyclePerTick ==
    /\ [][pc = "loop" =>
            \/ pc' = "done"
            \/ /\ pc' = "updateOrders"
               /\ backtestClock'.Now = backtestClock.Now + flags.durationBetweenAction]_vars
    /\ [][pc = "updateOrders" =>
            /\ pc' = "buyOrders"
            /\ ListsOnce(todo', {i \in 1..Len(purchases) : BuyHasStatus(purchases[i], "new")})]_vars
    /\ [][pc = "buyOrders" =>
            IF todo # << >>
            THEN pc' = "panic" \/ (pc' = "buyOrders" /\ AttemptOnHead("buy"))
            ELSE /\ pc' = "sellOrders"
                 /\ ListsOnce(todo', {i \in 1..Len(purchases) :
                                         SellHasStatus(purchases[i], "new")})]_vars
    /\ [][pc = "sellOrders" =>
            IF todo # << >>
            THEN pc' = "panic" \/ (pc' = "sellOrders" /\ AttemptOnHead("sell"))
            ELSE pc' = "switch"]_vars
    /\ [][pc = "switch" =>
            /\ pc' \in {"buy", "closeOut", "loop", "panic"}
            /\ pc' = "buy" => backtestClock.IsOpen /\ ~ClosingSoon]_vars
    /\ [][pc = "buy" => pc' = "sell"]_vars
    /\ [][pc = "sell" => pc' = "loop"]_vars
    /\ [][lastCall'.op \in {"fakeBuyAttempt", "fakeSellAttempt", "fakeOrder"}
             => pc \in {"buyOrders", "sellOrders"}]_<<lastCall>>
    /\ [][(pc = "buyOrders" /\ todo # << >>)
             => BuyOf(purchases, Head(todo)).CreatedAt < backtestClock.Now]_vars

\* updateOrders has gone through a rejected buy attempt and then sell
\* attempts in one tick, two purchases being open.
C23_Witness ==
    /\ pc = "sellOrders" /\ todo = << >>
    /\ lastCall.op = "fakeSellAttempt"
    /\ Len(purchases) = 2
    /\ BuyHasStatus(purchases[2], "new")
    /\ Deref(purchases[2].BuyOrder).ID \in attempts.rejected
    /\ Deref(purchases[2].BuyOrder).CreatedAt < backtestClock.Now

\* The minute of the k-th tick of the session the run starts in.
TickTime(k) == FirstOpenMinute(flags.backtestStartTime) + 60 * (k - 1)

\* The step is the first fill of the run: an accepted attempt on the only
\* purchase's buy order, nothing having been bought before.
FirstBuyFill ==
    /\ BuyAttemptStep(TRUE)
    /\ Len(purchases) = 1
    /\ backtestCash = ScenarioCash /\ backtestStockHeldQty = 0

\* The step is an accepted attempt on a pending sell order in a tick whose
\* close is at or above the order's take-profit limit.
TakeProfitStep ==
    /\ SellAttemptStep(TRUE)
    /\ CloseNow >= Deref(SellOf(purchases, Head(todo)).LimitPrice)

C25_LookupsFindSample == pc # "panic"

\* C26 (as stated): the clock's fields change only in updateFakeClock.
C26_ClockOnlyByUpdate ==
    [][backtestClock' # backtestClock
         => pc = "loop" /\ backtestClock' = ClockAfterUpdate(backtestClock)]_vars

\* C26 (amended): TodaysOpenTime, TodaysCloseTime, IsOpen and the step change
\* only in updateFakeClock; Now changes in updateFakeClock and, besides, in
\* the driver's pre-close branch, which adds the pre-close window to it after
\* the close-out. No other step touches the clock.
C26_ClockByUpdateAndJump ==
    [][backtestClock' # backtestClock
         => \/ pc = "loop" /\ backtestClock' = ClockAfterUpdate(backtestClock)
            \/ /\ pc = "jump"
               /\ backtestClock' =
                    [backtestClock EXCEPT !.Now = @ + flags.timeBeforeMarketCloseToSell]]_vars

\* The pre-close branch has moved Now past the close: the clock still reports
\* the market open.
C26_Witness ==
    /\ pc = "loop"
    /\ lastCall.op = "jump"
    /\ backtestClock.Now > backtestClock.TodaysCloseTime
    /\ backtestClock.IsOpen

\* The closes of the first and of the last record of the loaded series.
FirstLoadedClose ==
    LET data == backtestHistory.epochToTickerData
    IN  Deref(data[CHOOSE t \in DOMAIN data : \A u \in DOMAIN data : t <= u]).Close

LastLoadedClose ==
    LET data == backtestHistory.epochToTickerData
    IN  Deref(data[CHOOSE t \in DOMAIN data : \A u \in DOMAIN data : t >= u]).Close

\* C27: when the loop is left the report is computed without a panic, the
\* strategy's profit/loss from the starting cash and the ending cash, the
\* symbol's from the first and the last loaded close.
C27_ReportFormulas ==
    [][(pc = "loop" /\ backtestClock.Now > backtestHistory.endTime)
         => /\ pc' = "done"
            /\ Report.profitLoss =
                  profitLossPercent(flags.backtestStartingCash, backtestCash)
            /\ Report.symbolProfitLoss =
                  profitLossPercent(FirstLoadedClose, LastLoadedClose)]_vars

\* Purchase i's order of a side, as a pointer.
OrderPtr(ps, i, side) == IF side = "buy" THEN ps[i].BuyOrder ELSE ps[i].SellOrder

\* The orders that the step leaves in the list and whose status it changes.
StatusChanged ==
    {x \in (1..Len(purchases)) \X {"buy", "sell"} :
        /\ x[1] <= Len(purchases')
        /\ OrderPtr(purchases, x[1], x[2]) # NilPtr
        /\ OrderPtr(purchases', x[1], x[2]) # NilPtr
        /\ Deref(OrderPtr(purchases', x[1], x[2])).Status
              # Deref(OrderPtr(purchases, x[1], x[2])).Status}

\* The ledger moves by the fill of order x: price * quantity of cash against
\* quantity shares.
LedgerMovedBy(x) ==
    LET o    == Deref(OrderPtr(purchases', x[1], x[2]))
        sign == IF x[2] = "buy" THEN 1 ELSE 0 - 1
    IN  /\ backtestCash' = backtestCash - sign * Deref(o.FilledAvgPrice) * o.Qty
        /\ backtestStockHeldQty' = backtestStockHeldQty + sign * o.Qty

\* C28: an order's status changes only from "new" to "filled", one order at
\* a step, and with it the ledger moves by that order's fill; a filled order
\* is never changed again while it is in the list; and cash and shares held
\* change in no other step than a fill or the close-out, so that each order
\* is filled, and the ledger adjusted for it, at most once.
C28_FilledOnce ==
    /\ [][\A x \in StatusChanged :
             /\ Deref(OrderPtr(purchases, x[1], x[2])).Status = "new"
             /\ Deref(OrderPtr(purchases', x[1], x[2])).Status = "filled"
             /\ StatusChanged = {x}
             /\ pc \in {"buyOrders", "sellOrders"}
             /\ LedgerMovedBy(x)]_vars
    /\ [][\A i \in 1..Len(purchases) :
             i <= Len(purchases') =>
                /\ BuyFilled(purchases[i]) => purchases'[i].BuyOrder = purchases[i].BuyOrder
                /\ SellFilled(purchases[i]) => purchases'[i].SellOrder = purchases[i].SellOrder]_vars
    /\ [][(backtestCash' # backtestCash \/ backtestStockHeldQty' # backtestStockHeldQty)
             => pc = "closeOut" \/ StatusChanged # {}]_vars

\* updateOrders has run to its end in a tick after both orders of a purchase
\* were filled, the buy order in an earlier tick than the sell order.
C28_Witness ==
    /\ pc = "switch"
    /\ lastCall.op \in {"fakeBuyAttempt", "fakeSellAttempt"}
    /\ \E i \in 1..Len(purchases) :
          /\ BuyFilled(purchases[i]) /\ SellFilled(purchases[i])
          /\ lastCall.id \notin {BuyOf(purchases, i).ID, SellOf(purchases, i).ID}

\* C29: every purchase has its one buy order, and a sell order only when the
\* buy order is filled; while a purchase is in the list its buy order keeps
\* its identity, and a sell order, once placed, stays the purchase's sell
\* order: it is neither removed nor replaced by another one.
C29_OneBuyOneSell ==
    /\ [](\A i \in 1..Len(purchases) :
             /\ purchases[i].BuyOrder # NilPtr
             /\ purchases[i].SellOrder # NilPtr => BuyFilled(purchases[i]))
    /\ [][\A i \in 1..Len(purchases) :
             i <= Len(purchases') =>
                /\ BuyOf(purchases', i).ID = BuyOf(purchases, i).ID
                /\ purchases[i].SellOrder # NilPtr =>
                      /\ purchases'[i].SellOrder # NilPtr
                      /\ SellOf(purchases', i).ID = SellOf(purchases, i).ID
                      /\ SellOf(purchases', i).LimitPrice = SellOf(purchases, i).LimitPrice
                      /\ SellOf(purchases', i).Legs = SellOf(purchases, i).Legs]_vars

\* sell() has just placed a sell order while an older sell order of another
\* purchase was pending, and has left that one alone.
C29_Witness ==
    /\ CycleEnd
    /\ \E i, j \in 1..Len(purchases) :
          /\ SellHasStatus(purchases[i], "new")
          /\ SellHasStatus(purchases[j], "new")
          /\ SellOf(purchases, i).ID < SellOf(purchases, j).ID
          /\ SellOf(purchases, j).ID = backtestOrderID
          /\ PendingOrders(purchases) > lastCall.pending

\* The purchases of the list whose buy order is filled and whose sell order
\* is absent or not filled.
HeldPurchases(ps) == {i \in 1..Len(ps) : BuyFilled(ps[i]) /\ ~SellFilled(ps[i])}

InTick == pc \in {"updateOrders", "buyOrders", "sellOrders", "switch"}

\* C31: at every tick at which the market is not open the purchase list is
\* empty and no share is held (the close-out ran inside the pre-close window).
C31_FlatWhileClosed ==
    (InTick /\ ~backtestClock.IsOpen) =>
        (purchases = << >> /\ backtestStockHeldQty = 0)

\* C32: when the driver loop has ended, no share is held and no order is
\* pending.
C32_FlatAtEnd ==
    pc = "done" => (backtestStockHeldQty = 0 /\ PendingOrders(purchases) = 0)

\* A time is on a weekday between 09:30:00 and 16:00:00 of its own day.
InSession(t) ==
    /\ Weekday(t) \in 1..5
    /\ DateOfDay(t, 9, 30) <= t
    /\ t <= DateOfDay(t, 16, 0)

\* C33: after every updateFakeClock call, IsOpen is true exactly when Now is
\* on a weekday between 09:30:00 and 16:00:00 of Now's own calendar day.
C33_OpenIffInSession ==
    lastCall.op = "updateFakeClock" =>
        (backtestClock.IsOpen <=> InSession(backtestClock.Now))

\* The sell order of purchase p brackets base price b: loss limit below stop
\* below b below the take-profit limit (bracket prices carry PriceScale).
Bracketed(p, b) ==
    LET o   == Deref(p.SellOrder)
        leg == Deref(o.Legs)
    IN  /\ Deref(leg.LimitPrice) < Deref(leg.StopPrice)
        /\ Deref(leg.StopPrice) < b * PriceScale
        /\ b * PriceScale < Deref(o.LimitPrice)
        /\ Deref(leg.LimitPrice) = LossLimitPrice(b)
        /\ Deref(leg.StopPrice) = StopPrice(b)
        /\ Deref(o.LimitPrice) = ProfitLimitPrice(b)

C35_InProgressExact ==
    LET listed == {inProgressPurchases(purchases)[k] :
                     k \in 1..Len(inProgressPurchases(purchases))}
    IN  \A i \in 1..Len(purchases) :
           i \in listed <=>
              /\ BuyInProgress(purchases[i]) \/ BuyFilled(purchases[i])
              /\ ~SellFilled(purchases[i])

\* The number of orders, buy and sell, of a purchase list.
OrderCount(ps) ==
    Len(ps) + Cardinality({i \in 1..Len(ps) : ps[i].SellOrder # NilPtr})

\* C36: the buy-order and sell-order IDs of the purchases present are
\* pairwise distinct, and fakeOrder(id) finds the order created with that ID.
C36_DistinctOrderIDs ==
    /\ Cardinality(OrderIDs(purchases)) = OrderCount(purchases)
    /\ OrderIDs(purchases) \subseteq 1..backtestOrderID
    /\ \A i \in 1..Len(purchases) :
          /\ FakeOrderFind(purchases, BuyOf(purchases, i).ID) = <<i, "buy">>
          /\ purchases[i].SellOrder # NilPtr =>
                FakeOrderFind(purchases, SellOf(purchases, i).ID) = <<i, "sell">>

\* On the day after a close-out reset the counter, the orders are counted
\* from 1 again: two buy orders and the sell order of the first purchase.
C36_Witness ==
    /\ backtestClock.Now > Day
    /\ backtestCashStartOfDay # backtestCashStart
    /\ Len(purchases) = 2
    /\ BuyOf(purchases, 1).ID = 1
    /\ BuyOf(purchases, 2).ID = 2
    /\ purchases[1].SellOrder # NilPtr
    /\ SellOf(purchases, 1).ID = 3
    /\ backtestOrderID = 3

\* A step in which fakeCloseOutTrading ran to its end.
CloseOutDone == pc = "closeOut" /\ pc' = "jump"

\* C37: backtestCashStartOfDay is the starting cash until the first
\* close-out and afterwards the cash right after the most recent close-out;
\* the day report of a close-out measures the cash after the liquidation
\* against the snapshot as it stood before the close-out.
C37_DayStartSnapshot ==
    /\ backtestCashStartOfDay = backtestCashStart
    /\ [][IF CloseOutDone
          THEN /\ backtestCash' =
                     backtestCash + Deref(CurrentPricePtr).Low * backtestStockHeldQty
               /\ backtestCashStartOfDay' = backtestCash'
               /\ flags.backtestPrintDayDetails =>
                     /\ lastCall'.report # NoReport
                     /\ lastCall'.report[1].cash = backtestCash'
                     /\ lastCall'.report[1].profitLoss =
                           profitLossPercent(backtestCashStartOfDay, backtestCash')
          ELSE backtestCashStartOfDay' = backtestCashStartOfDay]_vars

\* A close-out has just sold held shares below their cost and printed the
\* day's loss.
C37_Witness ==
    /\ pc = "jump"
    /\ lastCall.op = "fakeCloseOutTrading"
    /\ lastCall.held > 0
    /\ lastCall.report # NoReport
    /\ lastCall.report[1].profitLoss.num < 0
    /\ lastCall.report[1].profitLoss.den = backtestCashStart
    /\ backtestCashStartOfDay = backtestCash
    /\ backtestCash # lastCall.cash

\* C38: in the live loop no purchase gets a sell order from two run
\* invocations: the broker accepts at most one sell order per purchase.
C38_OneSellOrderPerPurchase ==
    \A i \in 1..Len(live.sells) : live.sells[i] <= 1

\* A call of the database client has returned.
DbCalled(op) == db'.calls = db.calls + 1 /\ db'.op = op

\* C39: Insert on a purchase with a non-zero ID returns an error and leaves
\* table and purchase as they were; Update on a purchase with ID 0 returns an
\* error and leaves the table as it was; an Insert that returns nil has set a
\* non-zero ID; an Update returns nil only for a purchase whose row was
\* inserted before.
C39_IdProtocol ==
    [][/\ (DbCalled("Insert") /\ db.p.ID # 0) =>
             (db'.err # "" /\ db'.rows = db.rows /\ db'.p = db.p)
       /\ (DbCalled("Update") /\ db.p.ID = 0) =>
             (db'.err # "" /\ db'.rows = db.rows /\ db'.p = db.p)
       /\ (DbCalled("Insert") /\ db'.err = "") =>
             (db'.p.ID # 0 /\ db.p.ID = 0 /\ db'.rows[db'.p.ID] = RowOf(db.p))
       /\ (DbCalled("Update") /\ db'.err = "") =>
             (db.stored /\ db.p.ID \in 1..Len(db.rows)
              /\ db'.rows[db.p.ID] = RowOf(db.p))]_vars

\* After a successful Insert behind an earlier row, an Update was accepted
\* and wrote the purchase's new sell order to the purchase's row; one of
\* the three calls made wrote nothing.
C39_Witness ==
    /\ pc = "db"
    /\ db.op = "Update"
    /\ db.err = ""
    /\ db.p.ID = 2
    /\ db.p.SellOrder # NilPtr
    /\ Len(db.rows) = 2
    /\ db.rows[2] = RowOf(db.p)
    /\ db.rows[2].sell_order # "null"
    /\ db.calls = 3

====
